---- MODULE Spec2Model ----
(***************************************************************************)
(* Verification model of the vxdna host-side renderer.                     *)
(*                                                                         *)
(* Several subsystems are modelled, each with its own specification over   *)
(* the shared variable list (the variables of the other subsystems stay at *)
(* their initial value):                                                   *)
(*                                                                         *)
(*   SpecFence     one vxdna_hwctx: its sync-point slot, pending queue,    *)
(*                 polling (retirement) thread and destructor, the         *)
(*                 free-floating ring of its Context and the teardown of   *)
(*                 the Device that owns them                               *)
(*                 (vaccel_amdxdna.cpp, vaccel_amdxdna.h)                  *)
(*   SpecDispatch  vxdna::dispatch_ccmd and the eleven CCMD handlers on    *)
(*                 one Context of one Device (vaccel_amdxdna.cpp)          *)
(*   SpecRegistry  the process-wide cookie -> Device table                 *)
(*                 (vaccel_manager.cpp)                                    *)
(*   SpecCtx       concurrent create_context calls on one Device           *)
(*                 (vaccel_context.cpp, vaccel_drm_backend.cpp,            *)
(*                 vaccel_internal.h)                                      *)
(*   SpecApi       the entry points on a Device's Context, Resource and    *)
(*                 fence tables and on the capset (vaccel_context.cpp,     *)
(*                 vaccel_resource.cpp, vaccel_fence.cpp,                  *)
(*                 vaccel_capset.cpp, vaccel_drm_backend.cpp)              *)
(*   SpecResource  vaccel_resource::write and ::read on the iovecs of one  *)
(*                 Resource (vaccel_internal.h)                            *)
(*   SpecWrap      vaccel_error_wrap, the boundary that turns exceptions   *)
(*                 into return codes (vaccel_error.h)                      *)
(*   SpecBo        the constructor of a resource-backed vxdna_bo: kernel   *)
(*                 calls, reservation and aligned mapping                  *)
(*                 (vaccel_amdxdna.cpp)                                    *)
(*   SpecInfo      the buffer sizing of vxdna_context::get_info in         *)
(*                 unsigned arithmetic (vaccel_amdxdna.cpp)                *)
(*   SpecExec      the EXEC_CMD ioctl argument built by exec_cmd           *)
(*                 (vaccel_amdxdna.cpp)                                    *)
(*   SpecCtxLife   the destruction of a vxdna_context with its BOs and     *)
(*                 hwctxs (vaccel_amdxdna.h)                               *)
(***************************************************************************)
EXTENDS Integers, Sequences, FiniteSets, TLC

VARIABLES
    \* ---- vxdna_hwctx (vaccel_amdxdna.h:143-156)
    hw,                 \* lifecycle of the hwctx object: "none", "live", "closing", "dead"
    has_sync_point,     \* bool has_sync_point
    sync_point,         \* uint64_t sync_point
    timeout_nsec,       \* int64_t timeout_nsec
    pending_fences,     \* std::vector<shared_ptr<vaccel_fence>> pending_fences
    stop_polling,       \* std::atomic<bool> stop_polling
    fences_lock,        \* holder of fences_lock across steps: "free" or "thread"
    thr_pc,             \* position of polling_thread
    tmp_pending_fences, \* the batch the polling thread has taken
    wait_ret,           \* outcome of the SYNCOBJ_TIMELINE_WAIT in progress
    notified,           \* a condvar notification reached the sleeping thread
    dtor_pc,            \* position of ~vxdna_hwctx
    calls,              \* log of write_fence_callback invocations (fence id,
                        \* ring_idx, calling thread)
    submitted,          \* log of the submit_fence calls (fence id, path taken)
    armed,              \* a wait_cmd has latched a sync point since the hwctx was
                        \* created or since its last submit_fence
    \* ---- the Device that owns the hwctx's Context, and its teardown
    dev_pc,             \* position of vaccel_destroy / the Device destructor
    dev_objs,           \* the Contexts and Resources the Device's tables hold
    \* ---- one vxdna Device with one vxdna_context (vaccel_internal.h, vaccel_amdxdna.h)
    resource_table,     \* vaccel::resource_table: set of resources [id, iovs]
    resp_res,           \* vxdna_context::resp_res: {} (null) or one resource
    bo_table,           \* vxdna_context::bo_table: handles of the live BOs
    hwctx_table,        \* vxdna_context::hwctx_table: hwctxs [handle, has_sync_point]
    last,               \* record of the last dispatch_ccmd call and what it did
    \* ---- the device registry (vaccel_manager.cpp)
    device_table,       \* device_table: cookie -> Device, NoDev if absent
    next_dev,           \* name of the next Device constructed
    fd_open,            \* is the descriptor whose number is the cookie open
    thr,                \* the callers: position, locals and result of the call
    created,            \* the Device a returned vaccel_create registered, until
                        \* vaccel_destroy is called for the cookie
    clean,              \* no call for the same cookie ran during that vaccel_create
    winners,            \* vaccel_create calls that returned 0 since then
    last_lookup,        \* the last vaccel_lookup from outside and its result
    \* ---- the entry points on a Device's tables (vaccel_context.cpp,
    \*      vaccel_resource.cpp, vaccel_fence.cpp, vaccel_capset.cpp,
    \*      vaccel_drm_backend.cpp) and the vxdna Device (vaccel_internal.h)
    api_dev,            \* cookie -> is a Device registered for it
    ctx_tab,            \* cookie -> vaccel::context_table, contexts [ctx_id, obj,
                        \* last_fence_id]
    res_tab,            \* cookie -> vaccel::resource_table, resources [res_id, fd]
    fence_tab,          \* cookie -> vaccel::fence_table, fence ids
    num_ccmd,           \* cookie -> vaccel::num_ccmd_submissions
    cxx_ctx_tab,        \* context_table of the vxdna Device, contexts [ctx_id, obj]
    cthr,               \* the callers of create_context: position, locals, result
    api_last,           \* record of the last call of another entry point
    \* ---- one vaccel_resource backed by guest memory (vaccel_internal.h)
    iov_mem,            \* the memory behind iovecs[]: one byte sequence per iovec
    rw,                 \* is the Resource constructed; its last write and the
                        \* read that followed it, with their results
    \* ---- the exception boundary (vaccel_error.h)
    wrapped,            \* the last call through vaccel_error_wrap and its result
    \* ---- the mapping of one resource-backed vxdna_bo (vaccel_amdxdna.cpp)
    bo_map,             \* the last resource-backed BO mapping attempted and its result
    \* ---- get_info buffer sizing
    info,               \* the last get_info sizing: request, scratch buffer, bytes written back
    \* ---- exec_cmd ioctl argument
    exec,               \* the last EXEC_CMD: ioctl argument built, outcome, rsp.seq
    \* ---- registry lifecycle (vaccel_manager.cpp:85-158)
    initialized,        \* vaccel_manager.cpp:30, set by the load hook
    hook,               \* the last load/unload hook run and what it found and destroyed
    \* ---- vxdna_context destruction (vaccel_amdxdna.h:76-79, 158-162)
    ctx_life            \* one vxdna_context: fd, BO and hwctx tables, destructor position, ioctls issued

fenceVars == <<hw, has_sync_point, sync_point, timeout_nsec, pending_fences,
               stop_polling, fences_lock, thr_pc, tmp_pending_fences, wait_ret,
               notified, dtor_pc, calls, submitted, armed>>

dispVars == <<resource_table, resp_res, bo_table, hwctx_table, last>>

regVars == <<device_table, next_dev, fd_open, thr, created, clean, winners,
             last_lookup>>

ownerVars == <<dev_pc, dev_objs>>

apiVars == <<api_dev, ctx_tab, res_tab, fence_tab, num_ccmd, cxx_ctx_tab,
             cthr, api_last>>

resVars == <<iov_mem, rw>>

wrapVars == <<wrapped>>

boVars == <<bo_map>>

infoVars == <<info>>

execVars == <<exec>>

lifeVars == <<initialized, hook>>

ctxLifeVars == <<ctx_life>>

vars == <<fenceVars, ownerVars, dispVars, regVars, apiVars, resVars, wrapVars, boVars, infoVars, execVars, lifeVars, ctxLifeVars>>

\* what a step of one subsystem leaves alone
nonHwctxVars == <<ownerVars, dispVars, regVars, apiVars, resVars, wrapVars, boVars, infoVars, execVars, lifeVars, ctxLifeVars>>
nonFenceVars == <<armed, nonHwctxVars>>
nonDispVars == <<fenceVars, ownerVars, regVars, apiVars, resVars, wrapVars, boVars, infoVars, execVars, lifeVars, ctxLifeVars>>
nonRegVars == <<fenceVars, ownerVars, dispVars, apiVars, resVars, wrapVars, boVars, infoVars, execVars, lifeVars, ctxLifeVars>>
nonRegLifeVars == <<fenceVars, ownerVars, dispVars, apiVars, resVars, wrapVars, boVars, infoVars, execVars, ctxLifeVars>>
nonOwnerVars == <<fenceVars, dispVars, regVars, apiVars, resVars, wrapVars, boVars, infoVars, execVars, lifeVars, ctxLifeVars>>
nonApiVars == <<fenceVars, ownerVars, dispVars, regVars, resVars, wrapVars, boVars, infoVars, execVars, lifeVars, ctxLifeVars>>
nonWrapVars == <<fenceVars, ownerVars, dispVars, regVars, apiVars, resVars, boVars, infoVars, execVars, lifeVars, ctxLifeVars>>
nonBoVars == <<fenceVars, ownerVars, dispVars, regVars, apiVars, resVars, wrapVars, infoVars, execVars, lifeVars, ctxLifeVars>>
nonInfoVars == <<fenceVars, ownerVars, dispVars, regVars, apiVars, resVars, wrapVars, boVars, execVars, lifeVars, ctxLifeVars>>
nonExecVars == <<fenceVars, ownerVars, dispVars, regVars, apiVars, resVars, wrapVars, boVars, infoVars, lifeVars, ctxLifeVars>>
nonLifeVars == <<fenceVars, ownerVars, dispVars, regVars, apiVars, resVars, wrapVars, boVars, infoVars, execVars, ctxLifeVars>>
nonCtxLifeVars == <<fenceVars, ownerVars, dispVars, regVars, apiVars, resVars, wrapVars, boVars, infoVars, execVars, lifeVars>>
nonResVars == <<fenceVars, ownerVars, dispVars, regVars, apiVars, wrapVars, boVars, infoVars, execVars, lifeVars, ctxLifeVars>>

(***************************************************************************)
(* Bounds                                                                  *)
(***************************************************************************)
MaxFences == 3

FenceIds == 1..MaxFences
\* how many of them may go to the free-floating ring
MaxFree == 1
\* values of req->seq and req->timeout_nsec a wait_cmd may latch, and the
\* values the uninitialized members may hold
SyncPoints == {41, 42}
Timeouts == {0, 1000000}
\* results of ioctl(DRM_IOCTL_SYNCOBJ_TIMELINE_WAIT): 0, -1/ETIME, -1/other errno
WaitResults == {"ok", "timeout", "error"}

(***************************************************************************)
(* Helpers                                                                 *)
(***************************************************************************)
\* vaccel_fence(id, sync_point, syncobj_handle, ring_idx, timeout_nsec); the
\* two handles are those of the single hwctx modelled and are left out.
vaccel_fence(id, sp, to) == [id |-> id, sync_point |-> sp, timeout_nsec |-> to]

\* a bug that queues the new fence in front of the older ones
EnqueueFront(q, fence) == <<fence>> \o q
\* pending_fences.push_back(std::move(fence))
Enqueue(q, fence) == Append(q, fence)

\* cv.notify_one() / cv.notify_all(): reaches the thread only if it is blocked
\* in cv.wait at that moment
Notify == IF thr_pc = "sleeping" THEN TRUE ELSE notified

CallIds == {calls[i].id : i \in 1..Len(calls)}
SubmittedIds == {submitted[i].id : i \in 1..Len(submitted)}
\* fence ids are handed out in submission order, so fence f is entry f of the log
PathOf(f) == submitted[f].path
QueuedIds == {submitted[i].id : i \in {j \in 1..Len(submitted) : submitted[j].path = "queued"}}
\* the fences submitted to the free-floating ring
FreeIds == {f \in SubmittedIds : PathOf(f) = "free"}
CallCount(f) == Cardinality({i \in 1..Len(calls) : calls[i].id = f})

(***************************************************************************)
(* Initial state: no hwctx has been constructed yet.                       *)
(***************************************************************************)
FenceInit ==
    /\ hw = "none"
    /\ has_sync_point = FALSE
    /\ sync_point = 0
    /\ timeout_nsec = 0
    /\ pending_fences = <<>>
    /\ stop_polling = FALSE
    /\ fences_lock = "free"
    /\ thr_pc = "none"
    /\ tmp_pending_fences = <<>>
    /\ wait_ret = "none"
    /\ notified = FALSE
    /\ dtor_pc = "none"
    /\ calls = <<>>
    /\ submitted = <<>>
    /\ armed = FALSE
    /\ dev_pc = "live"
    /\ dev_objs = {}

(***************************************************************************)
(* vxdna_hwctx::vxdna_hwctx.  The failing exits (ioctl error, invalid      *)
(* handle, missing callback) throw before the thread starts and leave no   *)
(* object.  has_sync_point, sync_point and timeout_nsec have no            *)
(* initializer: their first value is indeterminate.  The hwctx is built by *)
(* create_hwctx on a Context of a Device that is not being torn down.      *)
(***************************************************************************)
HwctxCtor ==
    /\ hw = "none"
    /\ dev_pc = "live"
    /\ "context" \in dev_objs
    /\ hw' = "live"
    /\ has_sync_point' \in BOOLEAN
    /\ sync_point' \in SyncPoints
    /\ timeout_nsec' \in Timeouts
    /\ stop_polling' = FALSE
    /\ thr_pc' = "top"
    /\ armed' = FALSE
    /\ UNCHANGED <<pending_fences, fences_lock, tmp_pending_fences, wait_ret,
                   notified, dtor_pc, calls, submitted>>
    /\ UNCHANGED nonHwctxVars

\* vxdna_hwctx::set_sync_point, reached from vxdna_context::wait_cmd
SetSyncPoint(sp, to) ==
    /\ hw = "live"
    /\ dev_pc = "live"
    /\ fences_lock = "free"
    /\ sync_point' = sp
    /\ timeout_nsec' = to
    /\ has_sync_point' = TRUE
    /\ armed' = TRUE
    /\ UNCHANGED <<hw, pending_fences, stop_polling, fences_lock, thr_pc,
                   tmp_pending_fences, wait_ret, notified, dtor_pc, calls, submitted>>
    /\ UNCHANGED nonHwctxVars

\* vxdna_context::submit_fence for the ring of the hwctx (the lookup in
\* hwctx_table finds it), then vxdna_hwctx::submit_fence; the whole body of
\* the latter runs under fences_lock
SubmitFence(f) ==
    /\ hw = "live"
    /\ dev_pc = "live"
    /\ fences_lock = "free"
    /\ f = Len(submitted) + 1
    /\ IF ~has_sync_point
         THEN /\ calls' = Append(calls, [id |-> f, by |-> "caller", ring |-> "H"])
              /\ submitted' = Append(submitted, [id |-> f, path |-> "sync"])
              /\ UNCHANGED <<pending_fences, has_sync_point, notified>>
         ELSE /\ pending_fences' = Enqueue(pending_fences, vaccel_fence(f, sync_point, timeout_nsec))
              /\ has_sync_point' = FALSE
              /\ notified' = Notify
              /\ submitted' = Append(submitted, [id |-> f, path |-> "queued"])
              /\ UNCHANGED calls
    /\ armed' = FALSE
    /\ UNCHANGED <<hw, sync_point, timeout_nsec, stop_polling, fences_lock, thr_pc,
                   tmp_pending_fences, wait_ret, dtor_pc>>
    /\ UNCHANGED nonHwctxVars

\* a submit_fence for the free-floating ring that is handed to the hwctx all
\* the same
SubmitFenceFreeViaHwctx(f) ==
    /\ dev_pc = "live"
    /\ "context" \in dev_objs
    /\ hw = "live"
    /\ fences_lock = "free"
    /\ f = Len(submitted) + 1
    /\ Cardinality(FreeIds) < MaxFree
    /\ IF ~has_sync_point
         THEN /\ calls' = Append(calls, [id |-> f, by |-> "caller", ring |-> "INVALID"])
              /\ UNCHANGED <<pending_fences, has_sync_point, notified>>
         ELSE /\ pending_fences' = Enqueue(pending_fences, vaccel_fence(f, sync_point, timeout_nsec))
              /\ has_sync_point' = FALSE
              /\ notified' = Notify
              /\ UNCHANGED calls
    /\ submitted' = Append(submitted, [id |-> f, path |-> "free"])
    /\ armed' = FALSE
    /\ UNCHANGED <<hw, sync_point, timeout_nsec, stop_polling, fences_lock, thr_pc,
                   tmp_pending_fences, wait_ret, dtor_pc>>
    /\ UNCHANGED nonHwctxVars

\* vxdna_context::submit_fence for ring_idx = AMDXDNA_INVALID_CTX_HANDLE: the
\* callback is called at once; neither hwctx_table nor a hwctx is looked at
SubmitFenceFree(f) ==
    /\ dev_pc = "live"
    /\ "context" \in dev_objs
    /\ f = Len(submitted) + 1
    /\ Cardinality(FreeIds) < MaxFree
    /\ calls' = Append(calls, [id |-> f, by |-> "caller", ring |-> "INVALID"])
    /\ submitted' = Append(submitted, [id |-> f, path |-> "free"])
    /\ UNCHANGED <<hw, has_sync_point, sync_point, timeout_nsec, pending_fences,
                   stop_polling, fences_lock, thr_pc, tmp_pending_fences, wait_ret,
                   notified, dtor_pc>>
    /\ UNCHANGED nonFenceVars

(***************************************************************************)
(* polling_thread lambda                                                   *)
(***************************************************************************)
\* while (!stop_polling.load())
ThreadLoopCheck ==
    /\ thr_pc = "top"
    /\ thr_pc' = IF stop_polling THEN "exited" ELSE "lock"
    /\ UNCHANGED <<hw, has_sync_point, sync_point, timeout_nsec, pending_fences,
                   stop_polling, fences_lock, tmp_pending_fences, wait_ret, notified,
                   dtor_pc, calls, submitted>>
    /\ UNCHANGED nonFenceVars

\* std::unique_lock lock(fences_lock), and the re-lock when cv.wait wakes
ThreadLock ==
    /\ thr_pc = "lock"
    /\ fences_lock = "free"
    /\ fences_lock' = "thread"
    /\ thr_pc' = "pred"
    /\ UNCHANGED <<hw, has_sync_point, sync_point, timeout_nsec, pending_fences,
                   stop_polling, tmp_pending_fences, wait_ret, notified, dtor_pc,
                   calls, submitted>>
    /\ UNCHANGED nonFenceVars

\* the predicate of cv.wait, evaluated under the lock
ThreadPred ==
    /\ thr_pc = "pred"
    /\ thr_pc' = IF stop_polling \/ pending_fences # <<>> THEN "woken" ELSE "block"
    /\ UNCHANGED <<hw, has_sync_point, sync_point, timeout_nsec, pending_fences,
                   stop_polling, fences_lock, tmp_pending_fences, wait_ret, notified,
                   dtor_pc, calls, submitted>>
    /\ UNCHANGED nonFenceVars

\* cv.wait releases the lock and blocks
ThreadBlock ==
    /\ thr_pc = "block"
    /\ thr_pc' = "sleeping"
    /\ fences_lock' = "free"
    /\ notified' = FALSE
    /\ UNCHANGED <<hw, has_sync_point, sync_point, timeout_nsec, pending_fences,
                   stop_polling, tmp_pending_fences, wait_ret, dtor_pc, calls, submitted>>
    /\ UNCHANGED nonFenceVars

\* a notification wakes the blocked thread
ThreadWake ==
    /\ thr_pc = "sleeping"
    /\ notified
    /\ notified' = FALSE
    /\ thr_pc' = "lock"
    /\ UNCHANGED <<hw, has_sync_point, sync_point, timeout_nsec, pending_fences,
                   stop_polling, fences_lock, tmp_pending_fences, wait_ret, dtor_pc,
                   calls, submitted>>
    /\ UNCHANGED nonFenceVars

\* condition variables may wake spuriously
ThreadSpuriousWake ==
    /\ thr_pc = "sleeping"
    /\ ~notified
    /\ thr_pc' = "lock"
    /\ UNCHANGED <<hw, has_sync_point, sync_point, timeout_nsec, pending_fences,
                   stop_polling, fences_lock, tmp_pending_fences, wait_ret, notified,
                   dtor_pc, calls, submitted>>
    /\ UNCHANGED nonFenceVars

\* a polling thread that keeps fences_lock while it retires the batch
ThreadTakeKeepLock ==
    /\ thr_pc = "woken"
    /\ IF stop_polling
         THEN /\ thr_pc' = "exited"
              /\ fences_lock' = "free"
              /\ UNCHANGED <<pending_fences, tmp_pending_fences>>
         ELSE /\ tmp_pending_fences' = pending_fences
              /\ pending_fences' = <<>>
              /\ thr_pc' = IF pending_fences = <<>> THEN "top" ELSE "wait"
              /\ fences_lock' = IF pending_fences = <<>> THEN "free" ELSE "thread"
    /\ UNCHANGED <<hw, has_sync_point, sync_point, timeout_nsec, stop_polling,
                   wait_ret, notified, dtor_pc, calls, submitted>>
    /\ UNCHANGED nonFenceVars

\* if (stop_polling) break;  else take the queue by move, clear, unlock
ThreadTake ==
    /\ thr_pc = "woken"
    /\ IF stop_polling
         THEN /\ thr_pc' = "exited"
              /\ UNCHANGED <<pending_fences, tmp_pending_fences>>
         ELSE /\ tmp_pending_fences' = pending_fences
              /\ pending_fences' = <<>>
              /\ thr_pc' = IF pending_fences = <<>> THEN "top" ELSE "wait"
    /\ fences_lock' = "free"
    /\ UNCHANGED <<hw, has_sync_point, sync_point, timeout_nsec, stop_polling,
                   wait_ret, notified, dtor_pc, calls, submitted>>
    /\ UNCHANGED nonFenceVars

\* poll_and_retire_pending: ioctl(DRM_IOCTL_SYNCOBJ_TIMELINE_WAIT) on the next fence
ThreadWaitFence(ret) ==
    /\ thr_pc = "wait"
    /\ wait_ret' = ret
    /\ thr_pc' = "cb"
    /\ UNCHANGED <<hw, has_sync_point, sync_point, timeout_nsec, pending_fences,
                   stop_polling, fences_lock, tmp_pending_fences, notified, dtor_pc,
                   calls, submitted>>
    /\ UNCHANGED nonFenceVars

\* poll_and_retire_pending: write_fence_callback(...), whatever the wait returned
ThreadCallback ==
    /\ thr_pc = "cb"
    /\ calls' = Append(calls, [id |-> Head(tmp_pending_fences).id, by |-> "worker",
                               ring |-> "H"])
    /\ tmp_pending_fences' = Tail(tmp_pending_fences)
    /\ wait_ret' = "none"
    /\ thr_pc' = IF Tail(tmp_pending_fences) = <<>> THEN "top" ELSE "wait"
    /\ UNCHANGED <<hw, has_sync_point, sync_point, timeout_nsec, pending_fences,
                   stop_polling, fences_lock, notified, dtor_pc, submitted>>
    /\ UNCHANGED nonFenceVars

(***************************************************************************)
(* ~vxdna_hwctx: runs when the last reference is dropped (remove_hwctx     *)
(* while the Device lives, or the destruction of the hwctx table when the  *)
(* Device is torn down), so no submit_fence or set_sync_point is in flight *)
(* or can follow.                                                          *)
(***************************************************************************)
\* stop_polling.store(true)
DtorStop ==
    /\ hw = "live"
    /\ dev_pc \in {"live", "cleanup"}
    /\ hw' = "closing"
    /\ stop_polling' = TRUE
    /\ dtor_pc' = "notify"
    /\ UNCHANGED <<has_sync_point, sync_point, timeout_nsec, pending_fences,
                   fences_lock, thr_pc, tmp_pending_fences, wait_ret, notified,
                   calls, submitted>>
    /\ UNCHANGED nonFenceVars

\* cv.notify_all(), issued without holding fences_lock
DtorNotify ==
    /\ dtor_pc = "notify"
    /\ notified' = Notify
    /\ dtor_pc' = "join"
    /\ UNCHANGED <<hw, has_sync_point, sync_point, timeout_nsec, pending_fences,
                   stop_polling, fences_lock, thr_pc, tmp_pending_fences, wait_ret,
                   calls, submitted>>
    /\ UNCHANGED nonFenceVars

\* ~vxdna_hwctx returning without having waited for the polling thread
DtorNoJoin ==
    /\ dtor_pc = "join"
    /\ dtor_pc' = "done"
    /\ hw' = "dead"
    /\ pending_fences' = <<>>
    /\ UNCHANGED <<has_sync_point, sync_point, timeout_nsec, stop_polling,
                   fences_lock, thr_pc, tmp_pending_fences, wait_ret, notified,
                   calls, submitted>>
    /\ UNCHANGED nonFenceVars

\* polling_thread.join() returns; syncobj and hwctx are destroyed, and after
\* the body the members: the fences still in pending_fences are released
DtorJoin ==
    /\ dtor_pc = "join"
    /\ thr_pc = "exited"
    /\ dtor_pc' = "done"
    /\ hw' = "dead"
    /\ pending_fences' = <<>>
    /\ UNCHANGED <<has_sync_point, sync_point, timeout_nsec, stop_polling,
                   fences_lock, thr_pc, tmp_pending_fences, wait_ret, notified,
                   calls, submitted>>
    /\ UNCHANGED nonFenceVars

(***************************************************************************)
(* The Device that owns the Context of the hwctx.  vaccel_destroy erases   *)
(* the registry entry; with no call in flight the registry held the last   *)
(* reference, so the Device destructor runs in the caller: it releases the *)
(* device context, whose Context table releases the Context, whose hwctx   *)
(* table releases the hwctx (~vxdna_hwctx above), and then the tables.     *)
(***************************************************************************)
DevObjects == {"context", "resource"}

\* vxdna::create_ctx: make_shared<vxdna_context>, add_ctx
DevCreateCtx ==
    /\ dev_pc = "live"
    /\ "context" \notin dev_objs
    /\ dev_objs' = dev_objs \cup {"context"}
    /\ UNCHANGED dev_pc
    /\ UNCHANGED nonOwnerVars

\* vaccel::create_resource: make_shared<vaccel_resource>, add_resource
DevCreateResource ==
    /\ dev_pc = "live"
    /\ "resource" \notin dev_objs
    /\ dev_objs' = dev_objs \cup {"resource"}
    /\ UNCHANGED dev_pc
    /\ UNCHANGED nonOwnerVars

\* vaccel_destroy on a quiesced Device (no remove_hwctx under way): lookup,
\* vaccel_remove, device_table.erase, ~vaccel starts
DevDestroy ==
    /\ dev_pc = "live"
    /\ dtor_pc \in {"none", "done"}
    /\ dev_pc' = "cleanup"
    /\ UNCHANGED dev_objs
    /\ UNCHANGED nonOwnerVars

\* the hwctx, if any, is gone: the Context and the tables are released,
\* ~vaccel and vaccel_destroy return
DevDestroyed ==
    /\ dev_pc = "cleanup"
    /\ hw \in {"none", "dead"}
    /\ dev_objs' = {}
    /\ dev_pc' = "returned"
    /\ UNCHANGED nonOwnerVars

ThreadStep ==
    \/ ThreadLoopCheck
    \/ ThreadLock
    \/ ThreadPred
    \/ ThreadBlock
    \/ ThreadWake
    \/ ThreadTake
    \/ \E ret \in WaitResults : ThreadWaitFence(ret)
    \/ ThreadCallback

FenceNext ==
    \/ HwctxCtor
    \/ \E sp \in SyncPoints, to \in Timeouts : SetSyncPoint(sp, to)
    \/ \E f \in FenceIds : SubmitFence(f)
    \/ \E f \in FenceIds : SubmitFenceFree(f)
    \/ ThreadStep
    \/ ThreadSpuriousWake
    \/ DtorStop
    \/ DtorNotify
    \/ DtorJoin
    \/ DevCreateCtx
    \/ DevCreateResource
    \/ DevDestroy
    \/ DevDestroyed

(***************************************************************************)
(* CCMD dispatch on one Context of one Device.                             *)
(*                                                                         *)
(* Sizes are counted in 4-byte words.  A request is the vdrm_ccmd_req      *)
(* header {cmd, len, seqno, rsp_off} followed by the fields the handler    *)
(* reads; the guest's word i carries the value i, a zeroed word carries 0. *)
(* Error codes are named by their errno symbol, "OK" being 0.              *)
(***************************************************************************)
NumCmds == 11

HdrWords == 4

Handles == {1, 2}
ResIds == {1}
\* the resource ids an init CCMD may name: a second resource can be bound
InitResIds == {1, 2}
IovChoices == {<<1>>, <<2>>, <<4, 4>>}
RspOffs == {0, 2}
LenDeltas == {-1, 0, 1}
SysfsLens == {0, 2}
InfoSizes == {2}
IoctlErrnos == {"ENOMEM"}

Min(a, b) == IF a < b THEN a ELSE b
Max(a, b) == IF a > b THEN a ELSE b

\* AMD_CCMD_DISPATCH_ENTRY(name): {#name, vxdna_ccmd_<name>, sizeof(<name>_req)}
amdxdna_ccmd_dispatch_table ==
    << [name |-> "nop",        size |-> HdrWords],
       [name |-> "init",       size |-> HdrWords + 1],
       [name |-> "create_bo",  size |-> HdrWords + 4],
       [name |-> "destroy_bo", size |-> HdrWords + 1],
       [name |-> "create_ctx", size |-> HdrWords + 4],
       [name |-> "destroy_ctx", size |-> HdrWords + 1],
       [name |-> "config_ctx", size |-> HdrWords + 4],
       [name |-> "exec_cmd",   size |-> HdrWords + 5],
       [name |-> "wait_cmd",   size |-> HdrWords + 3],
       [name |-> "get_info",   size |-> HdrWords + 4],
       [name |-> "read_sysfs", size |-> HdrWords + 1] >>

\* sizeof of the response structs: {len, ret} header plus the payload fields
RspWords(name) ==
    CASE name = "amdxdna_ccmd_rsp" -> 2
      [] name = "create_bo_rsp"    -> 2 + 3
      [] name = "create_ctx_rsp"   -> 2 + 1
      [] name = "exec_cmd_rsp"     -> 2 + 2
      [] name = "get_info_rsp"     -> 2 + 2
      [] name = "read_sysfs_rsp"   -> 2 + 1

\* vaccel_map::lookup on the resource table / the hwctx table
get_resource(res_id) == {r \in resource_table : r.id = res_id}
lookup_hwctx(tbl, handle) == {h \in tbl : h.handle = handle}

\* an insert that drops the new entry
insert_hwctx_dropped(tbl, hwctx) == tbl

\* vaccel_map::insert: emplace keeps an entry that is already there
insert_hwctx(tbl, hwctx) ==
    IF lookup_hwctx(tbl, hwctx.handle) = {} THEN tbl \cup {hwctx} ELSE tbl
insert_resource(tbl, res) ==
    IF {r \in tbl : r.id = res.id} = {} THEN tbl \cup {res} ELSE tbl

\* The copy loop of vaccel_resource::write and ::read from iovec i on:
\* words transferred and words left over when the iovecs run out.
RECURSIVE ResWalk(_, _, _, _)
ResWalk(iovs, i, offset, size) ==
    IF i > Len(iovs) THEN [done |-> 0, left |-> size]
    ELSE IF offset >= iovs[i] THEN ResWalk(iovs, i + 1, offset - iovs[i], size)
    ELSE LET len == Min(size, iovs[i] - offset)
             rest == ResWalk(iovs, i + 1, 0, size - len)
         IN  [done |-> len + rest.done, left |-> rest.left]

(***************************************************************************)
(* The state a handler works on: st = [rr, bo, hw, writes], the Context's  *)
(* resp_res, bo_table and hwctx_table and the log of the writes made into  *)
(* resources.  Every operation returns [code, st]; a code other than "OK"  *)
(* is a thrown vaccel_error.                                               *)
(***************************************************************************)
Ret(code, st) == [code |-> code, st |-> st]

\* vaccel_resource::write: bytes that fit are copied before the throw
ResWrite(st, res, offset, rsp, size) ==
    LET w == ResWalk(res.iovs, 1, offset, size)
        entry == [res |-> res.id, off |-> offset, rsp |-> rsp, size |-> size,
                  written |-> w.done]
        st2 == [st EXCEPT !.writes = Append(@, entry)]
    IN  Ret(IF w.left > 0 THEN "EINVAL" ELSE "OK", st2)

\* vaccel_resource::read
ResRead(res, offset, size) ==
    IF ResWalk(res.iovs, 1, offset, size).left > 0 THEN "EINVAL" ELSE "OK"

Rsp(kind, ret, len) == [kind |-> kind, ret |-> ret, len |-> len]

\* a create_bo_rsp / create_ctx_rsp: the header and rsp.handle
HandleRsp(kind, handle) ==
    [kind |-> kind, ret |-> "OK", len |-> RspWords(kind), handle |-> handle]

\* write_rsp without the check for an unset resp_res
write_rsp_unchecked(st, rsp, rsp_size, rsp_off) ==
    IF st.rr = {} THEN Ret("OK", st)
    ELSE ResWrite(st, CHOOSE r \in st.rr : TRUE, rsp_off, rsp, rsp_size)

\* vxdna_context::write_rsp
write_rsp(st, rsp, rsp_size, rsp_off) ==
    IF st.rr = {} THEN Ret("EINVAL", st)
    ELSE ResWrite(st, CHOOSE r \in st.rr : TRUE, rsp_off, rsp, rsp_size)

\* write_err_rsp placing the error response behind the first header slot
write_err_rsp_misplaced(st, err) ==
    IF st.rr = {} THEN Ret("EINVAL", st)
    ELSE ResWrite(st, CHOOSE r \in st.rr : TRUE, RspWords("amdxdna_ccmd_rsp"),
                  Rsp("amdxdna_ccmd_rsp", err, RspWords("amdxdna_ccmd_rsp")),
                  RspWords("amdxdna_ccmd_rsp"))

\* vxdna_context::write_err_rsp
write_err_rsp(st, err) ==
    IF st.rr = {} THEN Ret("EINVAL", st)
    ELSE ResWrite(st, CHOOSE r \in st.rr : TRUE, 0,
                  Rsp("amdxdna_ccmd_rsp", err, RspWords("amdxdna_ccmd_rsp")),
                  RspWords("amdxdna_ccmd_rsp"))

(***************************************************************************)
(* vxdna_context operations.  req = [rsp_off, arg, dev]: arg is the handle *)
(* or resource id the request names, dev says bo_type = AMDXDNA_BO_DEV.    *)
(* env = [ioc, handle, hsp, n]: the outcome of the kernel call ("OK" or    *)
(* the errno it fails with), the handle the kernel hands out, the          *)
(* indeterminate first value of has_sync_point, the size of the data read. *)
(***************************************************************************)
create_bo(st, req, env) ==
    IF ~req.dev /\ get_resource(req.arg) = {} THEN Ret("EINVAL", st)
    ELSE IF env.ioc # "OK" THEN Ret(env.ioc, st)
    ELSE IF st.rr = {} THEN Ret("EINVAL", st)
    ELSE LET w == ResWrite(st, CHOOSE r \in st.rr : TRUE, req.rsp_off,
                           HandleRsp("create_bo_rsp", env.handle),
                           RspWords("create_bo_rsp"))
         IN  IF w.code # "OK" THEN w
             ELSE Ret("OK", [w.st EXCEPT !.bo = @ \cup {env.handle}])

remove_bo(st, req) == Ret("OK", [st EXCEPT !.bo = @ \ {req.arg}])

create_hwctx(st, req, env) ==
    IF env.ioc # "OK" THEN Ret(env.ioc, st)
    ELSE LET hwctx == [handle |-> env.handle, has_sync_point |-> env.hsp]
             st2 == [st EXCEPT !.hw = insert_hwctx(@, hwctx)]
         IN  write_rsp(st2, HandleRsp("create_ctx_rsp", hwctx.handle),
                       RspWords("create_ctx_rsp"), req.rsp_off)

remove_hwctx(st, req) ==
    Ret("OK", [st EXCEPT !.hw = @ \ lookup_hwctx(@, req.arg)])

config_hwctx(st, req, env) ==
    IF lookup_hwctx(st.hw, req.arg) = {} THEN Ret("EINVAL", st)
    ELSE Ret(env.ioc, st)

exec_cmd(st, req, env) ==
    IF lookup_hwctx(st.hw, req.arg) = {} THEN Ret("EINVAL", st)
    ELSE IF env.ioc # "OK" THEN Ret(env.ioc, st)
    ELSE write_rsp(st, Rsp("exec_cmd_rsp", "OK", RspWords("exec_cmd_rsp")),
                   RspWords("exec_cmd_rsp"), req.rsp_off)

wait_cmd(st, req) ==
    IF lookup_hwctx(st.hw, req.arg) = {} THEN Ret("EINVAL", st)
    ELSE LET latched == [handle |-> req.arg, has_sync_point |-> TRUE]
             st2 == [st EXCEPT !.hw = (@ \ lookup_hwctx(@, req.arg)) \cup {latched}]
         IN  write_err_rsp(st2, "OK")

get_info(st, req, env) ==
    IF get_resource(req.arg) = {} THEN Ret("EINVAL", st)
    ELSE LET res == CHOOSE r \in get_resource(req.arg) : TRUE
         IN  IF ResRead(res, 0, env.n) # "OK" THEN Ret("EINVAL", st)
             ELSE IF env.ioc # "OK" THEN Ret(env.ioc, st)
             ELSE LET w == ResWrite(st, res, 0, Rsp("info", "OK", env.n), env.n)
                  IN  IF w.code # "OK" THEN w
                      ELSE write_rsp(w.st,
                                     Rsp("get_info_rsp", "OK", RspWords("get_info_rsp")),
                                     RspWords("get_info_rsp"), req.rsp_off)

read_sysfs(st, req, env) ==
    IF env.ioc # "OK" THEN Ret(env.ioc, st)
    ELSE LET hdr == Rsp("read_sysfs_rsp", "OK", RspWords("read_sysfs_rsp") + env.n)
             w == write_rsp(st, hdr, RspWords("read_sysfs_rsp"), req.rsp_off)
         IN  IF w.code # "OK" THEN w
             ELSE write_rsp(w.st, Rsp("bytes", "OK", env.n), env.n,
                            req.rsp_off + RspWords("read_sysfs_rsp"))

(***************************************************************************)
(* The handlers.  A handler returns [code, raised, st]: the code that      *)
(* leaves the handler, the code its body raised, and the state.            *)
(***************************************************************************)
\* try { f(); } catch (const vaccel_error& e) { write_err_rsp; throw e; }:
\* a throw of write_err_rsp itself leaves the handler in place of e
vxdna_ccmd_error_wrap(r) ==
    IF r.code = "OK" THEN [code |-> "OK", raised |-> "OK", st |-> r.st]
    ELSE LET w == write_err_rsp(r.st, r.code)
         IN  [code |-> IF w.code = "OK" THEN r.code ELSE w.code,
              raised |-> r.code, st |-> w.st]

Unwrapped(r) == [code |-> r.code, raised |-> r.code, st |-> r.st]

vxdna_ccmd_nop(st) == Unwrapped(Ret("OK", st))

vxdna_ccmd_init(st, req) ==
    IF get_resource(req.arg) = {} THEN Unwrapped(Ret("EINVAL", st))
    ELSE Unwrapped(Ret("OK", [st EXCEPT !.rr = get_resource(req.arg)]))

Handler(name, st, req, env) ==
    CASE name = "nop"         -> vxdna_ccmd_nop(st)
      [] name = "init"        -> vxdna_ccmd_init(st, req)
      [] name = "create_bo"   -> vxdna_ccmd_error_wrap(create_bo(st, req, env))
      [] name = "destroy_bo"  -> vxdna_ccmd_error_wrap(remove_bo(st, req))
      [] name = "create_ctx"  -> vxdna_ccmd_error_wrap(create_hwctx(st, req, env))
      [] name = "destroy_ctx" -> vxdna_ccmd_error_wrap(remove_hwctx(st, req))
      [] name = "config_ctx"  -> vxdna_ccmd_error_wrap(config_hwctx(st, req, env))
      [] name = "exec_cmd"    -> vxdna_ccmd_error_wrap(exec_cmd(st, req, env))
      [] name = "wait_cmd"    -> vxdna_ccmd_error_wrap(wait_cmd(st, req))
      [] name = "get_info"    -> vxdna_ccmd_error_wrap(get_info(st, req, env))
      [] name = "read_sysfs"  -> vxdna_ccmd_error_wrap(read_sysfs(st, req, env))

(***************************************************************************)
(* vxdna::dispatch_ccmd.  The result records what the call did: indexed is *)
(* "no" (rejected before the table is read), "in" (entry cmd - 1 read) or  *)
(* "oob" (cmd = 0: cmd - 1 wraps and the read is outside the table, which  *)
(* is undefined: the bytes found there look like an entry without handler, *)
(* like an entry with a size above len, or like an entry whose handler     *)
(* pointer gets called); invoked names the handler that ran; buf is the    *)
(* scratch copy of the request handed to the handler.                      *)
(***************************************************************************)
OobOutcomes == {"no_handler", "short_len", "wild_call"}

Reject(st, indexed) ==
    [code |-> "EINVAL", raised |-> "none", st |-> st, indexed |-> indexed,
     invoked |-> "none", buf |-> <<>>]

\* a scratch copy cut to the size of the request struct
ScratchBufOfStructSize(size, len) ==
    [i \in 1..size |-> IF i <= len THEN i ELSE 0]

ScratchBuf(size, len) ==
    [i \in 1..Max(size, len) |-> IF i <= len THEN i ELSE 0]

dispatch_ccmd(st, hdr, req, env) ==
    IF hdr.cmd > NumCmds THEN Reject(st, "no")
    ELSE IF hdr.cmd = 0 THEN
        IF env.oob = "wild_call"
        THEN [code |-> "UB", raised |-> "none", st |-> st, indexed |-> "oob",
              invoked |-> "wild", buf |-> ScratchBuf(0, hdr.len)]
        ELSE Reject(st, "oob")
    ELSE LET ccmd == amdxdna_ccmd_dispatch_table[hdr.cmd]
         IN  IF hdr.len < ccmd.size THEN Reject(st, "in")
             ELSE LET r == Handler(ccmd.name, st, req, env)
                  IN  [code |-> r.code, raised |-> r.raised, st |-> r.st,
                       indexed |-> "in", invoked |-> ccmd.name,
                       buf |-> ScratchBuf(ccmd.size, hdr.len)]

NoEnv == [ioc |-> "OK", handle |-> 0, hsp |-> FALSE, n |-> 0, oob |-> "none"]

DispInit ==
    /\ resource_table = {}
    /\ resp_res = {}
    /\ bo_table = {}
    /\ hwctx_table = {}
    /\ last = [cmd |-> 1, len |-> HdrWords, rsp_off |-> 0, bound |-> FALSE,
               ret |-> "OK", raised |-> "OK", indexed |-> "in",
               invoked |-> "nop", buf |-> ScratchBuf(HdrWords, HdrWords),
               writes |-> <<>>, changed |-> FALSE]

\* vaccel::create_resource: the blob's iovecs become a resource
CreateResource(id, iovs) ==
    /\ resource_table' = insert_resource(resource_table, [id |-> id, iovs |-> iovs])
    /\ UNCHANGED <<resp_res, bo_table, hwctx_table, last>>
    /\ UNCHANGED nonDispVars

\* one submit_ccmd: the whole of dispatch_ccmd and the handler it calls
Dispatch(cmd, len, off, arg, dev, env) ==
    \E r \in {dispatch_ccmd([rr |-> resp_res, bo |-> bo_table,
                              hw |-> hwctx_table, writes |-> <<>>],
                             [cmd |-> cmd, len |-> len, rsp_off |-> off],
                             [rsp_off |-> off, arg |-> arg, dev |-> dev], env)} :
        /\ resp_res' = r.st.rr
        /\ bo_table' = r.st.bo
        /\ hwctx_table' = r.st.hw
        /\ last' = [cmd |-> cmd, len |-> len, rsp_off |-> off,
                    bound |-> resp_res # {}, ret |-> r.code, raised |-> r.raised,
                    indexed |-> r.indexed, invoked |-> r.invoked, buf |-> r.buf,
                    writes |-> r.st.writes,
                    changed |-> <<r.st.rr, r.st.bo, r.st.hw>>
                                    # <<resp_res, bo_table, hwctx_table>>]
        /\ UNCHANGED resource_table
        /\ UNCHANGED nonDispVars

\* the header shapes tried: a length one word short, exact or one word
\* over, and for the exact length each response offset
HdrShapes ==
    {[d |-> d, off |-> 0] : d \in LenDeltas} \cup {[d |-> 0, off |-> o] : o \in RspOffs}

SizeOf(cmd) == amdxdna_ccmd_dispatch_table[cmd].size

\* the kernel hands out a handle that no live object of the Context has
FreeBoHandles == Handles \ bo_table
FreeHwctxHandles == Handles \ {h.handle : h \in hwctx_table}

KernelOutcomes(free) ==
    {[NoEnv EXCEPT !.ioc = e] : e \in IoctlErrnos}
        \cup {[NoEnv EXCEPT !.handle = h] : h \in free}

DispatchBadCmd ==
    \E cmd \in {0, NumCmds + 1}, off \in RspOffs, oob \in OobOutcomes :
        Dispatch(cmd, HdrWords, off, 1, FALSE, [NoEnv EXCEPT !.oob = oob])

DispatchNop ==
    \E h \in HdrShapes :
        Dispatch(1, SizeOf(1) + h.d, h.off, 1, FALSE, NoEnv)

DispatchInit ==
    \E h \in HdrShapes, res_id \in InitResIds :
        Dispatch(2, SizeOf(2) + h.d, h.off, res_id, FALSE, NoEnv)

DispatchCreateBo ==
    \E h \in HdrShapes, res_id \in ResIds, dev \in BOOLEAN,
       env \in KernelOutcomes(FreeBoHandles)
               \cup {[NoEnv EXCEPT !.ioc = "EFAULT"]} :
        /\ dev => env.ioc # "EFAULT"
        /\ Dispatch(3, SizeOf(3) + h.d, h.off, res_id, dev, env)

DispatchDestroyBo ==
    \E h \in HdrShapes, handle \in Handles :
        Dispatch(4, SizeOf(4) + h.d, h.off, handle, FALSE, NoEnv)

DispatchCreateCtx ==
    \E h \in HdrShapes, hsp \in BOOLEAN,
       env \in KernelOutcomes(FreeHwctxHandles)
               \cup {[NoEnv EXCEPT !.ioc = "EINVAL"]} :
        Dispatch(5, SizeOf(5) + h.d, h.off, 1, FALSE, [env EXCEPT !.hsp = hsp])

DispatchDestroyCtx ==
    \E h \in HdrShapes, handle \in Handles :
        Dispatch(6, SizeOf(6) + h.d, h.off, handle, FALSE, NoEnv)

DispatchConfigCtx ==
    \E h \in HdrShapes, handle \in Handles,
       ioc \in {"OK"} \cup IoctlErrnos :
        Dispatch(7, SizeOf(7) + h.d, h.off, handle, FALSE, [NoEnv EXCEPT !.ioc = ioc])

DispatchExecCmd ==
    \E h \in HdrShapes, handle \in Handles,
       ioc \in {"OK"} \cup IoctlErrnos :
        Dispatch(8, SizeOf(8) + h.d, h.off, handle, FALSE, [NoEnv EXCEPT !.ioc = ioc])

DispatchWaitCmd ==
    \E h \in HdrShapes, handle \in Handles :
        Dispatch(9, SizeOf(9) + h.d, h.off, handle, FALSE, NoEnv)

DispatchGetInfo ==
    \E h \in HdrShapes, res_id \in ResIds, n \in InfoSizes,
       ioc \in {"OK"} \cup IoctlErrnos :
        Dispatch(10, SizeOf(10) + h.d, h.off, res_id, FALSE,
                 [NoEnv EXCEPT !.ioc = ioc, !.n = n])

DispatchReadSysfs ==
    \E h \in HdrShapes, n \in SysfsLens,
       ioc \in {"OK", "ENOENT"} :
        Dispatch(11, SizeOf(11) + h.d, h.off, 1, FALSE,
                 [NoEnv EXCEPT !.ioc = ioc, !.n = n])

DispNext ==
    \/ \E id \in ResIds, iovs \in IovChoices : CreateResource(id, iovs)
    \/ \E id \in InitResIds \ ResIds : CreateResource(id, <<4, 4>>)
    \/ DispatchBadCmd
    \/ DispatchNop
    \/ DispatchInit
    \/ DispatchCreateBo
    \/ DispatchDestroyBo
    \/ DispatchCreateCtx
    \/ DispatchDestroyCtx
    \/ DispatchConfigCtx
    \/ DispatchExecCmd
    \/ DispatchWaitCmd
    \/ DispatchGetInfo
    \/ DispatchReadSysfs

(***************************************************************************)
(* The device registry: device_table under device_table_lock, and the      *)
(* calls vaccel_create, vaccel_destroy and vaccel_lookup made by           *)
(* concurrent callers.  Every access to device_table is one step (it runs  *)
(* with the lock held); between two of them a caller can be preempted.  A  *)
(* Device is named by a number; it is destroyed when its last shared_ptr   *)
(* goes away, and its destructor closes drm_fd, which the constructor set  *)
(* to the cookie's value.                                                  *)
(***************************************************************************)
MaxDevices == 2

Cookies == {1, 2}
Threads == {1, 2}
Capsets == {"AMDXDNA", "OTHER"}
NoDev == 0

IdleThread ==
    [pc |-> "idle", op |-> "none", cookie |-> 1, device |-> NoDev,
     device_ptr |-> NoDev, ret |-> "none", closed |-> FALSE, wrote |-> FALSE,
     alone |-> TRUE, absent |-> FALSE, locked |-> FALSE,
     freed |-> {}]

\* the calls under way for cookie c, thread t aside
Others(th, t, c) ==
    {t2 \in Threads \ {t} : th[t2].pc \notin {"idle", "done"} /\ th[t2].cookie = c}

\* thread t enters a call for cookie c with the record rec: the calls under
\* way for c are no longer alone with it, nor is the new one
Enter(th, t, c, rec) ==
    [t2 \in Threads |->
        IF t2 = t THEN [rec EXCEPT !.alone = (Others(th, t, c) = {})]
        ELSE IF t2 \in Others(th, t, c) THEN [th[t2] EXCEPT !.alone = FALSE]
        ELSE th[t2]]

RegInit ==
    /\ device_table = [c \in Cookies |-> NoDev]
    /\ next_dev = 1
    /\ fd_open = [c \in Cookies |-> TRUE]
    /\ thr = [t \in Threads |-> IdleThread]
    /\ created = [c \in Cookies |-> NoDev]
    /\ clean = [c \in Cookies |-> TRUE]
    /\ winners = [c \in Cookies |-> 0]
    /\ last_lookup = [cookie |-> 1, dev |-> NoDev, expected |-> NoDev, clean |-> TRUE]
    /\ initialized = TRUE
    /\ hook = [op |-> "init", was |-> FALSE, registered |-> {}, freed |-> {}]

\* device_table.erase(cookie) emptying the whole table
erase_all(tbl, cookie) == [c \in Cookies |-> NoDev]

\* device_table.erase(cookie)
erase(tbl, cookie) == [tbl EXCEPT ![cookie] = NoDev]

\* device_table.try_emplace(cookie, device): no effect on an existing key
try_emplace(tbl, cookie, device) ==
    IF tbl[cookie] = NoDev THEN [tbl EXCEPT ![cookie] = device] ELSE tbl

\* references to Device d counted in the table alone
HeldByTable(tbl, th, d) == \E c \in Cookies : tbl[c] = d

\* the shared_ptrs to Device d in a table and in the callers' locals
Held(tbl, th, d) ==
    \/ \E c \in Cookies : tbl[c] = d
    \/ \E t \in Threads : th[t].device = d \/ th[t].device_ptr = d

\* ~vaccel runs for the Devices of ds that nothing holds any more
Destroyed(tbl, th, ds) == {d \in ds \ {NoDev} : ~Held(tbl, th, d)}

\* vaccel_lookup: nullptr while the registry is not initialized
vaccel_lookup(c) == IF ~initialized THEN NoDev ELSE device_table[c]

\* vaccel_create entry: the initialized and capset checks
CallCreate(t, c, capset) ==
    /\ thr[t].pc = "idle"
    /\ next_dev <= MaxDevices
    /\ thr' = IF ~initialized \/ capset # "AMDXDNA"
              THEN [thr EXCEPT ![t] = [IdleThread EXCEPT !.pc = "done",
                                          !.op = "create", !.cookie = c,
                                          !.ret = "EINVAL"]]
              ELSE Enter(thr, t, c, [IdleThread EXCEPT !.pc = "lookup1",
                                        !.op = "create", !.cookie = c])
    /\ UNCHANGED <<device_table, next_dev, fd_open, created, clean, winners,
                   last_lookup>>
    /\ UNCHANGED nonRegVars

\* if (vaccel_lookup(cookie)) return -EEXIST; device = make_shared<vaccel>
CreateLookup1(t) ==
    /\ thr[t].pc = "lookup1"
    /\ IF vaccel_lookup(thr[t].cookie) # NoDev
       THEN /\ thr' = [thr EXCEPT ![t].pc = "done", ![t].ret = "EEXIST"]
            /\ UNCHANGED next_dev
       ELSE /\ thr' = [thr EXCEPT ![t].pc = "add", ![t].device = next_dev]
            /\ next_dev' = next_dev + 1
    /\ UNCHANGED <<device_table, fd_open, created, clean, winners, last_lookup>>
    /\ UNCHANGED nonRegVars

\* ret = vaccel_add(std::move(device)): on a duplicate key the local
\* shared_ptr keeps the new Device
CreateAdd(t) ==
    /\ thr[t].pc = "add"
    /\ device_table' = IF ~initialized THEN device_table
                       ELSE try_emplace(device_table, thr[t].cookie, thr[t].device)
    /\ IF ~initialized
       THEN thr' = [thr EXCEPT ![t].pc = "unwind", ![t].ret = "EINVAL"]
       ELSE IF device_table[thr[t].cookie] = NoDev
       THEN thr' = [thr EXCEPT ![t].pc = "lookup2", ![t].device = NoDev,
                               ![t].wrote = TRUE]
       ELSE thr' = [thr EXCEPT ![t].pc = "unwind", ![t].ret = "EEXIST"]
    /\ UNCHANGED <<next_dev, fd_open, created, clean, winners, last_lookup>>
    /\ UNCHANGED nonRegVars

\* if (ret) return ret: the local Device is destroyed, ~vaccel closes drm_fd
CreateUnwind(t) ==
    /\ thr[t].pc = "unwind"
    /\ thr' = [thr EXCEPT ![t].pc = "done", ![t].device = NoDev,
                          ![t].closed = TRUE, ![t].freed = {thr[t].device}]
    /\ fd_open' = [fd_open EXCEPT ![thr[t].cookie] = FALSE]
    /\ UNCHANGED <<device_table, next_dev, created, clean, winners, last_lookup>>
    /\ UNCHANGED nonRegVars

\* device_ptr = vaccel_lookup(cookie); if (!device_ptr) return -EINVAL
CreateLookup2(t) ==
    /\ thr[t].pc = "lookup2"
    /\ IF vaccel_lookup(thr[t].cookie) = NoDev
       THEN thr' = [thr EXCEPT ![t].pc = "done", ![t].ret = "EINVAL"]
       ELSE thr' = [thr EXCEPT ![t].pc = "init",
                               ![t].device_ptr = vaccel_lookup(thr[t].cookie)]
    /\ UNCHANGED <<device_table, next_dev, fd_open, created, clean, winners,
                   last_lookup>>
    /\ UNCHANGED nonRegVars

\* vxdna_device_init succeeded: return 0, device_ptr goes out of scope
CreateInitOk(t) ==
    /\ thr[t].pc = "init"
    /\ \E th2 \in {[thr EXCEPT ![t].pc = "done", ![t].ret = "OK",
                               ![t].device_ptr = NoDev]} :
        \E gone \in {Destroyed(device_table, th2, {thr[t].device_ptr})} :
            /\ thr' = [th2 EXCEPT ![t].closed = (gone # {}), ![t].freed = gone]
            /\ fd_open' = IF gone # {}
                          THEN [fd_open EXCEPT ![thr[t].cookie] = FALSE]
                          ELSE fd_open
    /\ created' = [created EXCEPT ![thr[t].cookie] = thr[t].device_ptr]
    /\ clean' = [clean EXCEPT ![thr[t].cookie] = thr[t].alone]
    /\ winners' = [winners EXCEPT ![thr[t].cookie] = @ + 1]
    /\ UNCHANGED <<device_table, next_dev, last_lookup>>
    /\ UNCHANGED nonRegVars

\* vxdna_device_init returned NULL
CreateInitFail(t) ==
    /\ thr[t].pc = "init"
    /\ thr' = [thr EXCEPT ![t].pc = "remove"]
    /\ UNCHANGED <<device_table, next_dev, fd_open, created, clean, winners,
                   last_lookup>>
    /\ UNCHANGED nonRegVars

\* vaccel_remove(cookie); return -EINVAL.  The erase runs between mtx_lock
\* and mtx_unlock of device_table_lock: locked notes a ~vaccel run by it.
CreateRemove(t) ==
    /\ thr[t].pc = "remove"
    /\ device_table' = erase(device_table, thr[t].cookie)
    /\ \E th2 \in {[thr EXCEPT ![t].pc = "done", ![t].ret = "EINVAL",
                               ![t].device_ptr = NoDev, ![t].wrote = TRUE]} :
        \E gone \in {Destroyed(erase(device_table, thr[t].cookie), th2,
                               {device_table[thr[t].cookie], thr[t].device_ptr})} :
            /\ thr' = [th2 EXCEPT ![t].closed = (gone # {}),
                                  ![t].locked = (gone # {}),
                                  ![t].freed = gone]
            /\ fd_open' = IF gone # {}
                          THEN [fd_open EXCEPT ![thr[t].cookie] = FALSE]
                          ELSE fd_open
    /\ UNCHANGED <<next_dev, created, clean, winners, last_lookup>>
    /\ UNCHANGED nonRegVars

\* vaccel_destroy is called; absent notes that no Device is registered for
\* the cookie at that moment
CallDestroy(t, c) ==
    /\ thr[t].pc = "idle"
    /\ thr' = Enter(thr, t, c, [IdleThread EXCEPT !.pc = "dlookup",
                                   !.op = "destroy", !.cookie = c,
                                   !.absent = (device_table[c] = NoDev)])
    /\ created' = [created EXCEPT ![c] = NoDev]
    /\ clean' = [clean EXCEPT ![c] = TRUE]
    /\ winners' = [winners EXCEPT ![c] = 0]
    /\ UNCHANGED <<device_table, next_dev, fd_open, last_lookup>>
    /\ UNCHANGED nonRegVars

\* vaccel_destroy going on to vaccel_remove whatever the lookup returned
DestroyNoLookup(t) ==
    /\ thr[t].pc = "dlookup"
    /\ thr' = [thr EXCEPT ![t].pc = "dremove"]
    /\ UNCHANGED <<device_table, next_dev, fd_open, created, clean, winners,
                   last_lookup>>
    /\ UNCHANGED nonRegVars

\* if (!vaccel_lookup(cookie)) return
DestroyLookup(t) ==
    /\ thr[t].pc = "dlookup"
    /\ thr' = [thr EXCEPT ![t].pc = IF vaccel_lookup(thr[t].cookie) = NoDev
                                    THEN "done" ELSE "dremove"]
    /\ UNCHANGED <<device_table, next_dev, fd_open, created, clean, winners,
                   last_lookup>>
    /\ UNCHANGED nonRegVars

\* vaccel_remove(cookie): the erase, and a ~vaccel it runs, happen between
\* mtx_lock and mtx_unlock of device_table_lock
DestroyRemove(t) ==
    /\ thr[t].pc = "dremove"
    /\ device_table' = erase(device_table, thr[t].cookie)
    /\ \E th2 \in {[thr EXCEPT ![t].pc = "done", ![t].wrote = TRUE]} :
        \E gone \in {Destroyed(erase(device_table, thr[t].cookie), th2,
                               {device_table[thr[t].cookie]})} :
            /\ thr' = [th2 EXCEPT ![t].closed = (gone # {}),
                                  ![t].locked = (gone # {}),
                                  ![t].freed = gone]
            /\ fd_open' = IF gone # {}
                          THEN [fd_open EXCEPT ![thr[t].cookie] = FALSE]
                          ELSE fd_open
    /\ UNCHANGED <<next_dev, created, clean, winners, last_lookup>>
    /\ UNCHANGED nonRegVars

\* vaccel_lookup called from outside, e.g. by a vaccel_* entry point
Lookup(t, c) ==
    /\ thr[t].pc = "idle"
    /\ last_lookup' = [cookie |-> c, dev |-> vaccel_lookup(c),
                       expected |-> created[c], clean |-> clean[c]]
    /\ UNCHANGED <<device_table, next_dev, fd_open, thr, created, clean, winners>>
    /\ UNCHANGED nonRegVars

\* the call has returned to its caller
Return(t) ==
    /\ thr[t].pc = "done"
    /\ thr' = [thr EXCEPT ![t] = IdleThread]
    /\ UNCHANGED <<device_table, next_dev, fd_open, created, clean, winners,
                   last_lookup>>
    /\ UNCHANGED nonRegVars

\* the load and unload hooks run when the library is loaded or unloaded:
\* no call into it is under way
NoCallUnderWay == \A t \in Threads : thr[t].pc = "idle"

\* vaccel_renderer_init: if (initialized) return 0; mtx_init; initialized = true
vaccel_renderer_init ==
    /\ NoCallUnderWay
    /\ IF initialized THEN UNCHANGED <<initialized, hook>>
       ELSE /\ initialized' = TRUE
            /\ hook' = [op |-> "init", was |-> FALSE, registered |-> {}, freed |-> {}]
    /\ UNCHANGED regVars
    /\ UNCHANGED nonRegLifeVars

\* vaccel_renderer_cleanup with the device_table.clear() left out
vaccel_renderer_cleanup_flag_only ==
    /\ NoCallUnderWay
    /\ initialized' = FALSE
    /\ hook' = [op |-> "cleanup", was |-> initialized,
                registered |-> IF initialized
                               THEN {device_table[c] : c \in Cookies} \ {NoDev} ELSE {},
                freed |-> {}]
    /\ UNCHANGED regVars
    /\ UNCHANGED nonRegLifeVars

\* vaccel_renderer_cleanup: if (!initialized) return; device_table.clear()
\* runs ~vaccel for every Device nothing else holds; initialized = false
vaccel_renderer_cleanup ==
    /\ NoCallUnderWay
    /\ IF ~initialized
       THEN /\ hook' = [op |-> "cleanup", was |-> FALSE, registered |-> {}, freed |-> {}]
            /\ UNCHANGED <<initialized, regVars>>
       ELSE LET registered == {device_table[c] : c \in Cookies} \ {NoDev}
                cleared == [c \in Cookies |-> NoDev]
                gone == Destroyed(cleared, thr, registered)
            IN  /\ device_table' = cleared
                /\ fd_open' = [c \in Cookies |->
                                  IF device_table[c] \in gone THEN FALSE ELSE fd_open[c]]
                /\ created' = [c \in Cookies |-> NoDev]
                /\ clean' = [c \in Cookies |-> TRUE]
                /\ winners' = [c \in Cookies |-> 0]
                /\ initialized' = FALSE
                /\ hook' = [op |-> "cleanup", was |-> TRUE,
                            registered |-> registered, freed |-> gone]
                /\ UNCHANGED <<next_dev, thr, last_lookup>>
    /\ UNCHANGED nonRegLifeVars

RegNext ==
    \/ vaccel_renderer_init
    \/ vaccel_renderer_cleanup
    \/ \E t \in Threads :
            \/ \E c \in Cookies, capset \in Capsets : CallCreate(t, c, capset)
            \/ CreateLookup1(t)
            \/ CreateAdd(t)
            \/ CreateUnwind(t)
            \/ CreateLookup2(t)
            \/ CreateInitOk(t)
            \/ CreateInitFail(t)
            \/ CreateRemove(t)
            \/ \E c \in Cookies : CallDestroy(t, c)
            \/ DestroyLookup(t)
            \/ DestroyRemove(t)
            \/ \E c \in Cookies : Lookup(t, c)
            \/ Return(t)

(***************************************************************************)
(* The entry points that work on the tables of a Device.  Two              *)
(* implementations of the Device exist side by side: struct vaccel with    *)
(* the extern "C" entry points (vaccel_context.cpp, vaccel_resource.cpp,   *)
(* vaccel_fence.cpp, vaccel_capset.cpp over vaccel_drm_backend.cpp), and   *)
(* the class vaccel<vxdna, vxdna_context> (vaccel_internal.h,              *)
(* vaccel_amdxdna.cpp) whose methods throw vaccel_error and are turned     *)
(* into a return code by vaccel_error_wrap.  create_context is modelled    *)
(* with concurrent callers: every table access is one step (it runs under  *)
(* the table's lock).  The other entry points run as one step each.        *)
(***************************************************************************)
CtxIds == {1}
\* the callers create a Device for cookie 1; cookie 2 never has one
DevCookies == {1}
CThreads == {1, 2}
NoObj == 0

IdleCaller ==
    [pc |-> "idle", impl |-> "c", cookie |-> 1, ctx_id |-> 1, obj |-> NoObj,
     ret |-> "none", frees |-> 0]

\* api_last: dev and found say whether the Device and the object the call
\* names were there when the call began, out is what the call stored
\* through its output pointers ("none": nothing was stored)
NoCall ==
    [op |-> "none", cookie |-> 1, dev |-> FALSE, found |-> FALSE, ret |-> "none",
     changed |-> FALSE, out |-> "none", args |-> <<>>]

ApiInit ==
    /\ api_dev = [c \in Cookies |-> FALSE]
    /\ ctx_tab = [c \in Cookies |-> {}]
    /\ res_tab = [c \in Cookies |-> {}]
    /\ fence_tab = [c \in Cookies |-> {}]
    /\ num_ccmd = [c \in Cookies |-> 0]
    /\ cxx_ctx_tab = {}
    /\ cthr = [t \in CThreads |-> IdleCaller]
    /\ api_last = NoCall

\* the Contexts that are allocated: those a table holds and those a
\* create_context call has built and not yet handed to the table
ObjsInUse ==
    {e.obj : e \in (UNION {ctx_tab[c] : c \in Cookies}) \cup cxx_ctx_tab}
        \cup {cthr[t].obj : t \in {u \in CThreads : cthr[u].pc = "add"}}

\* calloc / make_shared: an object that is not allocated at present (the
\* first such name; a freed one may be handed out again)
NewObj ==
    CHOOSE n \in 1..(Cardinality(ObjsInUse) + 1) :
        n \notin ObjsInUse /\ \A k \in 1..(n - 1) : k \in ObjsInUse

\* table.find(id)
TabLookup(tab, id) == {e \in tab : e.ctx_id = id}

\* context_table.insert / _map.emplace: no effect on an existing key
TabInsert(tab, id, obj) ==
    IF TabLookup(tab, id) = {}
    THEN tab \cup {[ctx_id |-> id, obj |-> obj, last_fence_id |-> 0]}
    ELSE tab

\* vaccel_create / vaccel_destroy seen from the entry points: the Device of
\* cookie c appears, or goes away with its tables (no call on it in flight)
ApiCreateDevice(c) ==
    /\ ~api_dev[c]
    /\ api_dev' = [api_dev EXCEPT ![c] = TRUE]
    /\ api_last' = [NoCall EXCEPT !.op = "create_device", !.cookie = c, !.ret = "OK",
                                  !.changed = TRUE]
    /\ UNCHANGED <<ctx_tab, res_tab, fence_tab, num_ccmd, cxx_ctx_tab, cthr>>
    /\ UNCHANGED nonApiVars

ApiDestroyDevice(c) ==
    /\ api_dev[c]
    /\ \A t \in CThreads : cthr[t].pc = "idle"
    /\ api_dev' = [api_dev EXCEPT ![c] = FALSE]
    /\ ctx_tab' = [ctx_tab EXCEPT ![c] = {}]
    /\ res_tab' = [res_tab EXCEPT ![c] = {}]
    /\ fence_tab' = [fence_tab EXCEPT ![c] = {}]
    /\ num_ccmd' = [num_ccmd EXCEPT ![c] = 0]
    /\ api_last' = [NoCall EXCEPT !.op = "destroy_device", !.cookie = c, !.dev = TRUE,
                                  !.ret = "OK", !.changed = TRUE]
    /\ UNCHANGED <<cxx_ctx_tab, cthr>>
    /\ UNCHANGED nonApiVars

\* vaccel_context_create: device = vaccel_lookup(cookie); if (!device) return -ENODEV
CtxCreateCall(t, c, id) ==
    /\ cthr[t].pc = "idle"
    /\ cthr' = [cthr EXCEPT ![t] =
                   [IdleCaller EXCEPT !.cookie = c, !.ctx_id = id,
                                      !.pc = IF api_dev[c] THEN "lookup" ELSE "done",
                                      !.ret = IF api_dev[c] THEN "none" ELSE "ENODEV"]]
    /\ UNCHANGED <<api_dev, ctx_tab, res_tab, fence_tab, num_ccmd, cxx_ctx_tab, api_last>>
    /\ UNCHANGED nonApiVars

\* if (vaccel_context_lookup(device, ctx_id)) return -EEXIST; then
\* vaccel_drm_context_create up to its vaccel_context_add: ctx = calloc(...)
CtxCreateLookup(t) ==
    /\ cthr[t].pc = "lookup"
    /\ cthr[t].impl = "c"
    /\ IF TabLookup(ctx_tab[cthr[t].cookie], cthr[t].ctx_id) # {}
       THEN /\ cthr' = [cthr EXCEPT ![t].pc = "done", ![t].ret = "EEXIST"]
       ELSE /\ cthr' = [cthr EXCEPT ![t].pc = "add", ![t].obj = NewObj]
    /\ UNCHANGED <<api_dev, ctx_tab, res_tab, fence_tab, num_ccmd, cxx_ctx_tab, api_last>>
    /\ UNCHANGED nonApiVars

\* vaccel_context_add: the shared_ptr with context_destroy_func is copied
\* into the table; on a duplicate key nothing holds it at the end of the
\* scope, so the deleter frees ctx, and -EEXIST is returned
CtxCreateAdd(t) ==
    /\ cthr[t].pc = "add"
    /\ cthr[t].impl = "c"
    /\ ctx_tab' = [ctx_tab EXCEPT ![cthr[t].cookie] =
                      TabInsert(@, cthr[t].ctx_id, cthr[t].obj)]
    /\ IF TabLookup(ctx_tab[cthr[t].cookie], cthr[t].ctx_id) = {}
       THEN cthr' = [cthr EXCEPT ![t].pc = "done", ![t].ret = "OK"]
       ELSE cthr' = [cthr EXCEPT ![t].pc = "unwind", ![t].ret = "EEXIST",
                                 ![t].frees = 1]
    /\ UNCHANGED <<api_dev, res_tab, fence_tab, num_ccmd, cxx_ctx_tab, api_last>>
    /\ UNCHANGED nonApiVars

\* vaccel_drm_context_create, if (ret): mtx_destroy(&ctx->lock);
\* free(ctx->name); free(ctx); return ret
CtxCreateUnwind(t) ==
    /\ cthr[t].pc = "unwind"
    /\ cthr' = [cthr EXCEPT ![t].pc = "done", ![t].frees = @ + 1]
    /\ UNCHANGED <<api_dev, ctx_tab, res_tab, fence_tab, num_ccmd, cxx_ctx_tab, api_last>>
    /\ UNCHANGED nonApiVars

\* vaccel<T>::create_ctx under vaccel_error_wrap is called
CxxCreateCall(t, id) ==
    /\ cthr[t].pc = "idle"
    /\ cthr' = [cthr EXCEPT ![t] = [IdleCaller EXCEPT !.impl = "cxx", !.ctx_id = id,
                                                      !.pc = "lookup"]]
    /\ UNCHANGED <<api_dev, ctx_tab, res_tab, fence_tab, num_ccmd, cxx_ctx_tab, api_last>>
    /\ UNCHANGED nonApiVars

\* ctx = get_ctx(ctx_id); if (ctx) throw -EEXIST; vxdna::create_ctx:
\* make_shared<vxdna_context>, and DRM_IOCTL_SET_CLIENT_NAME, which throws
\* -errno when it fails (the new Context is destroyed)
CxxCreateLookup(t, ioc) ==
    /\ cthr[t].pc = "lookup"
    /\ cthr[t].impl = "cxx"
    /\ IF TabLookup(cxx_ctx_tab, cthr[t].ctx_id) # {}
       THEN /\ cthr' = [cthr EXCEPT ![t].pc = "done", ![t].ret = "EEXIST"]
       ELSE /\ cthr' = IF ioc = "OK"
                       THEN [cthr EXCEPT ![t].pc = "add", ![t].obj = NewObj]
                       ELSE [cthr EXCEPT ![t].pc = "done", ![t].ret = ioc,
                                         ![t].obj = NewObj, ![t].frees = 1]
    /\ UNCHANGED <<api_dev, ctx_tab, res_tab, fence_tab, num_ccmd, cxx_ctx_tab, api_last>>
    /\ UNCHANGED nonApiVars

\* add_ctx(ctx_id, std::move(ctx)): the result of context_table.insert is
\* dropped; on a duplicate key the new Context is destroyed and the call
\* returns normally, so vaccel_error_wrap returns 0
CxxCreateAdd(t) ==
    /\ cthr[t].pc = "add"
    /\ cthr[t].impl = "cxx"
    /\ cxx_ctx_tab' = TabInsert(cxx_ctx_tab, cthr[t].ctx_id, cthr[t].obj)
    /\ cthr' = [cthr EXCEPT ![t].pc = "done", ![t].ret = "OK",
                            ![t].frees = IF TabLookup(cxx_ctx_tab, cthr[t].ctx_id) = {}
                                         THEN 0 ELSE 1]
    /\ UNCHANGED <<api_dev, ctx_tab, res_tab, fence_tab, num_ccmd, api_last>>
    /\ UNCHANGED nonApiVars

\* the create_context call has returned to its caller
CtxReturn(t) ==
    /\ cthr[t].pc = "done"
    /\ cthr' = [cthr EXCEPT ![t] = IdleCaller]
    /\ UNCHANGED <<api_dev, ctx_tab, res_tab, fence_tab, num_ccmd, cxx_ctx_tab, api_last>>
    /\ UNCHANGED nonApiVars

(***************************************************************************)
(* The other extern "C" entry points, one step each.  An output is a       *)
(* sequence: <<>> while nothing was stored through the pointer, <<v>> once *)
(* v was stored.                                                           *)
(***************************************************************************)
MaxCcmds == 1

ApiFences == {1}
\* ring_idx: AMDXDNA_INVALID_CTX_HANDLE, or the handle of a hwctx
Rings == {"INVALID", "H"}
CapsetIds == {"AMDXDNA", "OTHER"}
\* sizeof(struct vaccel_drm_capset): three uint32_t
CapsetSize == 12
\* vaccel_capset_instance as 32-bit words: max_version, min_version, context_type
vaccel_capset_instance == <<1, 1, 0>>
BufSizes == {0, CapsetSize - 1, CapsetSize, CapsetSize + 4}

NoOut == [fd |-> <<>>, max_version |-> <<>>, max_size |-> <<>>, buf |-> <<>>, cb |-> <<>>]

ApiTables == <<api_dev, ctx_tab, res_tab, fence_tab, num_ccmd, cxx_ctx_tab>>

\* the call returns: what it was, what it found, what it did
ApiReturnArgs(op, c, found, ret, out, args) ==
    api_last' = [op |-> op, cookie |-> c, dev |-> api_dev[c], found |-> found,
                 ret |-> ret, out |-> out, changed |-> (ApiTables' # ApiTables),
                 args |-> args]
ApiReturn(op, c, found, ret, out) == ApiReturnArgs(op, c, found, ret, out, <<>>)

ResLookup(tab, id) == {r \in tab : r.res_id = id}

\* vaccel_resource_create, vaccel_drm_resource_create, vaccel_resource_add
ResourceCreate(c, id, dumb, prime) ==
    /\ \E found \in {ResLookup(res_tab[c], id) # {}} :
        \E ret \in {IF ~api_dev[c] THEN "ENODEV"
                     ELSE IF found THEN "EEXIST"
                     ELSE dumb} :
            /\ res_tab' = IF ret = "OK"
                          THEN [res_tab EXCEPT ![c] = @ \cup {[res_id |-> id,
                                                               fd |-> (prime = "OK")]}]
                          ELSE res_tab
            /\ UNCHANGED <<api_dev, ctx_tab, fence_tab, num_ccmd, cxx_ctx_tab, cthr>>
            /\ ApiReturn("create_resource", c, found, ret, NoOut)
    /\ UNCHANGED nonApiVars

\* vaccel_resource_destroy, vaccel_drm_resource_destroy, vaccel_resource_remove
ResourceDestroy(c, id) ==
    /\ res_tab' = IF api_dev[c] THEN [res_tab EXCEPT ![c] = @ \ ResLookup(@, id)]
                  ELSE res_tab
    /\ UNCHANGED <<api_dev, ctx_tab, fence_tab, num_ccmd, cxx_ctx_tab, cthr>>
    /\ ApiReturn("destroy_resource", c, ResLookup(res_tab[c], id) # {}, "void", NoOut)
    /\ UNCHANGED nonApiVars

\* vaccel_resource_export_fd, vaccel_drm_resource_export_fd: *fd is stored
\* before the result of os_dupfd_cloexec is tested
ResourceExportFd(c, id, dup) ==
    /\ UNCHANGED <<api_dev, ctx_tab, res_tab, fence_tab, num_ccmd, cxx_ctx_tab,
                   cthr>>
    /\ \E rs \in {ResLookup(res_tab[c], id)} :
        \E ret \in {IF ~api_dev[c] THEN "ENODEV"
                     ELSE IF rs = {} THEN "ENOENT"
                     ELSE IF \E r \in rs : ~r.fd THEN "EINVAL"
                     ELSE dup} :
            ApiReturn("export_resource_fd", c, rs # {}, ret,
                      IF ret = "OK" THEN [NoOut EXCEPT !.fd = <<1>>]
                      ELSE IF ret = dup THEN [NoOut EXCEPT !.fd = <<-1>>]
                      ELSE NoOut)
    /\ UNCHANGED nonApiVars

\* vaccel_context_destroy, vaccel_drm_context_destroy, vaccel_context_remove
ContextDestroy(c, id) ==
    /\ ctx_tab' = IF api_dev[c] THEN [ctx_tab EXCEPT ![c] = @ \ TabLookup(@, id)]
                  ELSE ctx_tab
    /\ UNCHANGED <<api_dev, res_tab, fence_tab, num_ccmd, cxx_ctx_tab, cthr>>
    /\ ApiReturn("destroy_context", c, TabLookup(ctx_tab[c], id) # {}, "void", NoOut)
    /\ UNCHANGED nonApiVars

\* vaccel_submit_ccmd, vaccel_drm_submit_ccmd
SubmitCcmd(c, id) ==
    /\ \E found \in {TabLookup(ctx_tab[c], id) # {}} :
        \E ret \in {IF ~api_dev[c] THEN "ENODEV"
                     ELSE IF ~found THEN "ENOENT"
                     ELSE "OK"} :
            /\ ret = "OK" => num_ccmd[c] < MaxCcmds
            /\ num_ccmd' = IF ret = "OK" THEN [num_ccmd EXCEPT ![c] = @ + 1]
                           ELSE num_ccmd
            /\ UNCHANGED <<api_dev, ctx_tab, res_tab, fence_tab, cxx_ctx_tab, cthr>>
            /\ ApiReturn("submit_ccmd", c, found, ret, NoOut)
    /\ UNCHANGED nonApiVars

\* vaccel_submit_fence reporting success without a record in the fence table
SubmitFenceEntryNoRecord(c, id, fence_id, efd) ==
    /\ \E found \in {TabLookup(ctx_tab[c], id) # {}} :
        \E ret \in {IF ~api_dev[c] THEN "ENODEV"
                     ELSE IF ~found THEN "ENOENT"
                     ELSE IF fence_id \in fence_tab[c] THEN "EEXIST"
                     ELSE efd} :
            /\ ctx_tab' = IF ret = "OK"
                          THEN [ctx_tab EXCEPT ![c] =
                                   {IF e.ctx_id = id
                                    THEN [e EXCEPT !.last_fence_id = fence_id]
                                    ELSE e : e \in @}]
                          ELSE ctx_tab
            /\ UNCHANGED <<api_dev, res_tab, fence_tab, num_ccmd, cxx_ctx_tab, cthr>>
            /\ ApiReturnArgs("submit_fence", c, found, ret, NoOut, <<id, fence_id>>)
    /\ UNCHANGED nonApiVars

\* vaccel_submit_fence, vaccel_drm_submit_fence, vaccel_fence_add
SubmitFenceEntry(c, id, fence_id, efd) ==
    /\ \E found \in {TabLookup(ctx_tab[c], id) # {}} :
        \E ret \in {IF ~api_dev[c] THEN "ENODEV"
                     ELSE IF ~found THEN "ENOENT"
                     ELSE IF fence_id \in fence_tab[c] THEN "EEXIST"
                     ELSE efd} :
            /\ fence_tab' = IF ret = "OK" THEN [fence_tab EXCEPT ![c] = @ \cup {fence_id}]
                            ELSE fence_tab
            /\ ctx_tab' = IF ret = "OK"
                          THEN [ctx_tab EXCEPT ![c] =
                                   {IF e.ctx_id = id
                                    THEN [e EXCEPT !.last_fence_id = fence_id]
                                    ELSE e : e \in @}]
                          ELSE ctx_tab
            /\ UNCHANGED <<api_dev, res_tab, num_ccmd, cxx_ctx_tab, cthr>>
            /\ ApiReturnArgs("submit_fence", c, found, ret, NoOut, <<id, fence_id>>)
    /\ UNCHANGED nonApiVars

\* vxdna::submit_fence, with vxdna_context::submit_fence for a Context that
\* has no hwctx: the free-floating ring calls write_context_fence at once,
\* any other ring is not in the hwctx table.  vaccel_error_wrap turns the
\* exception into the return value.
CxxSubmitFence(id, ring_idx, fence_id) ==
    /\ \E found \in {TabLookup(cxx_ctx_tab, id) # {}} :
        \E ret \in {IF ~found THEN "EINVAL"
                     ELSE IF ring_idx = "INVALID" THEN "OK"
                     ELSE "EINVAL"} :
            /\ UNCHANGED <<api_dev, ctx_tab, res_tab, fence_tab, num_ccmd,
                           cxx_ctx_tab, cthr>>
            /\ api_last' = [op |-> "cxx_submit_fence", cookie |-> 1, dev |-> TRUE,
                            found |-> found, ret |-> ret,
                            out |-> IF ret = "OK"
                                    THEN [NoOut EXCEPT !.cb = <<<<id, ring_idx, fence_id>>>>]
                                    ELSE NoOut,
                            changed |-> (ApiTables' # ApiTables),
                            args |-> <<>>]
    /\ UNCHANGED nonApiVars

\* vaccel_get_fence_fd: the duplicate of the fence's fd, or -1
GetFenceFd(c, fence_id, dup) ==
    /\ UNCHANGED <<api_dev, ctx_tab, res_tab, fence_tab, num_ccmd, cxx_ctx_tab,
                   cthr>>
    /\ ApiReturnArgs("get_fence_fd", c, fence_id \in fence_tab[c],
                     IF api_dev[c] /\ fence_id \in fence_tab[c] /\ dup = "OK"
                     THEN "fd" ELSE "-1", NoOut, <<fence_id, dup>>)
    /\ UNCHANGED nonApiVars

\* vaccel_get_capset_info storing through its pointers before it has
\* validated the capset id
GetCapsetInfoEager(c, capset_id, mv, ms) ==
    /\ UNCHANGED <<api_dev, ctx_tab, res_tab, fence_tab, num_ccmd, cxx_ctx_tab,
                   cthr>>
    /\ \E ret \in {IF ~api_dev[c] THEN "ENODEV"
                     ELSE IF capset_id # "AMDXDNA" THEN "ENOTSUP"
                     ELSE "OK"} :
        ApiReturnArgs("get_capset_info", c, capset_id = "AMDXDNA", ret,
                      IF ret # "ENODEV"
                      THEN [NoOut EXCEPT
                               !.max_version = IF mv THEN <<vaccel_capset_instance[1]>> ELSE <<>>,
                               !.max_size = IF ms THEN <<CapsetSize>> ELSE <<>>]
                      ELSE NoOut,
                      <<mv, ms>>)
    /\ UNCHANGED nonApiVars

\* vaccel_get_capset_info; mv and ms say that max_version and max_size are
\* not NULL
GetCapsetInfo(c, capset_id, mv, ms) ==
    /\ UNCHANGED <<api_dev, ctx_tab, res_tab, fence_tab, num_ccmd, cxx_ctx_tab,
                   cthr>>
    /\ \E ret \in {IF ~api_dev[c] THEN "ENODEV"
                     ELSE IF capset_id # "AMDXDNA" THEN "ENOTSUP"
                     ELSE "OK"} :
        ApiReturnArgs("get_capset_info", c, capset_id = "AMDXDNA", ret,
                      IF ret = "OK"
                      THEN [NoOut EXCEPT
                               !.max_version = IF mv THEN <<vaccel_capset_instance[1]>> ELSE <<>>,
                               !.max_size = IF ms THEN <<CapsetSize>> ELSE <<>>]
                      ELSE NoOut,
                      <<mv, ms>>)
    /\ UNCHANGED nonApiVars

\* vaccel_fill_capset validating the capset id before it looks the Device up
FillCapsetIdFirst(c, capset_id, capset_size, buf) ==
    /\ UNCHANGED <<api_dev, ctx_tab, res_tab, fence_tab, num_ccmd, cxx_ctx_tab,
                   cthr>>
    /\ \E ret \in {IF capset_id # "AMDXDNA" THEN "ENOTSUP"
                     ELSE IF ~api_dev[c] THEN "ENODEV"
                     ELSE IF ~buf THEN "EINVAL"
                     ELSE IF capset_size < CapsetSize THEN "EINVAL"
                     ELSE "OK"} :
        ApiReturnArgs("fill_capset", c, capset_id = "AMDXDNA", ret,
                      IF ret = "OK" THEN [NoOut EXCEPT !.buf = vaccel_capset_instance]
                      ELSE NoOut,
                      <<capset_size, buf>>)
    /\ UNCHANGED nonApiVars

\* vaccel_fill_capset; buf says that capset_buf is not NULL
FillCapset(c, capset_id, capset_size, buf) ==
    /\ UNCHANGED <<api_dev, ctx_tab, res_tab, fence_tab, num_ccmd, cxx_ctx_tab,
                   cthr>>
    /\ \E ret \in {IF ~api_dev[c] THEN "ENODEV"
                     ELSE IF capset_id # "AMDXDNA" THEN "ENOTSUP"
                     ELSE IF ~buf THEN "EINVAL"
                     ELSE IF capset_size < CapsetSize THEN "EINVAL"
                     ELSE "OK"} :
        ApiReturnArgs("fill_capset", c, capset_id = "AMDXDNA", ret,
                      IF ret = "OK" THEN [NoOut EXCEPT !.buf = vaccel_capset_instance]
                      ELSE NoOut,
                      <<capset_size, buf>>)
    /\ UNCHANGED nonApiVars

\* the steps of a create_context call made by thread t
CtxCreateStep(t) ==
    \/ \E c \in Cookies, id \in CtxIds : CtxCreateCall(t, c, id)
    \/ CtxCreateLookup(t)
    \/ CtxCreateAdd(t)
    \/ CtxCreateUnwind(t)
    \/ \E id \in CtxIds : CxxCreateCall(t, id)
    \/ \E ioc \in {"OK"} \cup IoctlErrnos : CxxCreateLookup(t, ioc)
    \/ CxxCreateAdd(t)
    \/ CtxReturn(t)

\* concurrent callers of create_context
CtxNext ==
    \/ \E c \in DevCookies : ApiCreateDevice(c) \/ ApiDestroyDevice(c)
    \/ \E t \in CThreads : CtxCreateStep(t)

\* one caller at a time on the entry points; its create_context never
\* meets a concurrent one, so vaccel_context_add never fails for it
ApiNext ==
    \/ \E c \in DevCookies : ApiCreateDevice(c) \/ ApiDestroyDevice(c)
    \/ \E c \in Cookies, id \in CtxIds : CtxCreateCall(1, c, id)
    \/ CtxCreateLookup(1)
    \/ CtxCreateAdd(1)
    \/ \E id \in CtxIds : CxxCreateCall(1, id)
    \/ \E ioc \in {"OK"} \cup IoctlErrnos : CxxCreateLookup(1, ioc)
    \/ CxxCreateAdd(1)
    \/ CtxReturn(1)
    \/ \E c \in Cookies, id \in ResIds, dumb, prime \in {"OK"} \cup IoctlErrnos :
           ResourceCreate(c, id, dumb, prime)
    \/ \E c \in Cookies, id \in ResIds : ResourceDestroy(c, id)
    \/ \E c \in Cookies, id \in ResIds, dup \in {"OK"} \cup IoctlErrnos :
           ResourceExportFd(c, id, dup)
    \/ \E c \in Cookies, id \in CtxIds : ContextDestroy(c, id)
    \/ \E c \in Cookies, id \in CtxIds : SubmitCcmd(c, id)
    \/ \E c \in Cookies, id \in CtxIds, f \in ApiFences, efd \in {"OK"} \cup IoctlErrnos :
           SubmitFenceEntry(c, id, f, efd)
    \/ \E id \in CtxIds, ring \in Rings, f \in ApiFences : CxxSubmitFence(id, ring, f)
    \/ \E c \in Cookies, f \in ApiFences, dup \in {"OK"} \cup IoctlErrnos :
           GetFenceFd(c, f, dup)
    \/ \E c \in Cookies, capset_id \in CapsetIds, mv, ms \in BOOLEAN :
           GetCapsetInfo(c, capset_id, mv, ms)
    \/ \E c \in Cookies, capset_id \in CapsetIds, n \in BufSizes, buf \in BOOLEAN :
           FillCapset(c, capset_id, n, buf)

(***************************************************************************)
(* vaccel_resource::write and ::read on the guest memory of one Resource.  *)
(* The memory is a sequence of chunks, one per iovec and iov_len bytes     *)
(* long; the iovecs of a Resource are distinct ranges of guest memory.     *)
(* Offsets and sizes are far below 2^32, and the only subtraction on them  *)
(* is guarded, so the uint32_t arithmetic does not wrap.                   *)
(***************************************************************************)
MaxBytes == 3

\* the iovec lists a Resource is built on, as lists of iov_len: up to
\* MaxBytes iovecs, some of them empty, MaxBytes bytes in all at most
RECURSIVE SumLens(_)
SumLens(lens) == IF lens = <<>> THEN 0 ELSE Head(lens) + SumLens(Tail(lens))
IovLists ==
    {l \in UNION {[1..k -> 0..MaxBytes] : k \in 0..MaxBytes} : SumLens(l) <= MaxBytes}
\* the buffers handed to write: bytes that tell their position, or zeroes
WriteBufs ==
    {[k \in 1..n |-> k] : n \in 0..(MaxBytes + 1)}
        \cup {[k \in 1..n |-> 0] : n \in 1..MaxBytes}
Offsets == 0..(MaxBytes + 1)

TotalLen(mem) == SumLens([i \in 1..Len(mem) |-> Len(mem[i])])

\* the loop of vaccel_resource::write that goes on to the next iovec with
\* the offset it came with
RECURSIVE write_loop_keep_offset(_, _, _, _, _)
write_loop_keep_offset(mem, i, offset, buf, bytes_written) ==
    IF i > Len(mem) THEN [mem |-> mem, size |-> Len(buf), bytes |-> bytes_written]
    ELSE IF offset >= Len(mem[i])
    THEN write_loop_keep_offset(mem, i + 1, offset - Len(mem[i]), buf, bytes_written)
    ELSE LET len == Min(Len(buf), Len(mem[i]) - offset)
             dst == [k \in 1..Len(mem[i]) |->
                        IF k > offset /\ k <= offset + len THEN buf[k - offset]
                        ELSE mem[i][k]]
         IN  write_loop_keep_offset([mem EXCEPT ![i] = dst], i + 1, offset,
                                    SubSeq(buf, len + 1, Len(buf)), bytes_written + len)

\* the loop of vaccel_resource::write from iovec i on: the memory, the
\* bytes of buf left over (size) and bytes_written when it ends
RECURSIVE write_loop(_, _, _, _, _)
write_loop(mem, i, offset, buf, bytes_written) ==
    IF i > Len(mem) THEN [mem |-> mem, size |-> Len(buf), bytes |-> bytes_written]
    ELSE IF offset >= Len(mem[i])
    THEN write_loop(mem, i + 1, offset - Len(mem[i]), buf, bytes_written)
    ELSE LET len == Min(Len(buf), Len(mem[i]) - offset)
             dst == [k \in 1..Len(mem[i]) |->
                        IF k > offset /\ k <= offset + len THEN buf[k - offset]
                        ELSE mem[i][k]]
         IN  write_loop([mem EXCEPT ![i] = dst], i + 1, 0,
                        SubSeq(buf, len + 1, Len(buf)), bytes_written + len)

\* vaccel_resource::write: returns bytes_written, or throws
\* vaccel_error(-EINVAL) when bytes are left over; what fitted has been
\* copied by then
write(mem, offset, buf) ==
    LET r == write_loop(mem, 1, offset, buf, 0)
    IN  [mem |-> r.mem, thrown |-> r.size > 0, bytes |-> r.bytes]

\* the loop of vaccel_resource::read: the bytes copied to buf so far (out)
\* and the size left over when it ends
RECURSIVE read_loop(_, _, _, _, _)
read_loop(mem, i, offset, size, out) ==
    IF i > Len(mem) THEN [out |-> out, size |-> size]
    ELSE IF offset >= Len(mem[i])
    THEN read_loop(mem, i + 1, offset - Len(mem[i]), size, out)
    ELSE LET len == Min(size, Len(mem[i]) - offset)
         IN  read_loop(mem, i + 1, 0, size - len,
                       out \o SubSeq(mem[i], offset + 1, offset + len))

\* vaccel_resource::read: returns bytes_read, or throws vaccel_error(-EINVAL)
read(mem, offset, size) ==
    LET r == read_loop(mem, 1, offset, size, <<>>)
    IN  [out |-> r.out, thrown |-> r.size > 0, bytes |-> Len(r.out)]

ResInit ==
    /\ iov_mem = <<>>
    /\ rw = [made |-> FALSE, w |-> <<>>, r |-> <<>>]

\* vaccel_resource::vaccel_resource on an iovec list whose memory holds the
\* byte fill throughout
ResConstruct(lens, fill) ==
    /\ ~rw.made
    /\ iov_mem' = [i \in 1..Len(lens) |-> [k \in 1..lens[i] |-> fill]]
    /\ rw' = [rw EXCEPT !.made = TRUE]
    /\ UNCHANGED nonResVars

\* ~vaccel_resource
ResDestruct ==
    /\ rw.made
    /\ iov_mem' = <<>>
    /\ rw' = [made |-> FALSE, w |-> <<>>, r |-> <<>>]
    /\ UNCHANGED nonResVars

\* res->write(offset, buf, size) with size = Len(buf), the first write into
\* the memory of the Resource
ResWriteOp(offset, buf) ==
    /\ rw.made
    /\ rw.w = <<>>
    /\ \E res \in {write(iov_mem, offset, buf)} :
        /\ iov_mem' = res.mem
        /\ rw' = [rw EXCEPT !.w = <<[off |-> offset, buf |-> buf, thrown |-> res.thrown,
                                     bytes |-> res.bytes]>>]
    /\ UNCHANGED nonResVars

\* res->read(offset, out, size) for the range of the last write
ResReadBack ==
    /\ rw.made
    /\ rw.w # <<>>
    /\ rw.r = <<>>
    /\ \E res \in {read(iov_mem, rw.w[1].off, Len(rw.w[1].buf))} :
        rw' = [rw EXCEPT !.r = <<[out |-> res.out, thrown |-> res.thrown,
                                  bytes |-> res.bytes]>>]
    /\ UNCHANGED iov_mem
    /\ UNCHANGED nonResVars

ResNext ==
    \/ \E lens \in IovLists, fill \in {0, 1} : ResConstruct(lens, fill)
    \/ ResDestruct
    \/ \E offset \in Offsets, buf \in WriteBufs : ResWriteOp(offset, buf)
    \/ ResReadBack

(***************************************************************************)
(* The exception boundary.  A wrapped callable f either returns or throws  *)
(* an object of some type; a vaccel_error carries its code.                *)
(***************************************************************************)
EIO == 5

\* the names the boundary is entered with
WrapFuncs == {"create_ctx", "destroy_ctx", "create_resource", "destroy_resource",
              "export_resource_fd", "submit_ccmd", "submit_fence",
              "get_capset_info", "fill_capset"}

\* codes a vaccel_error is thrown with: -EINVAL, -ENOENT, -ENOMEM, -EEXIST,
\* -ENODEV, -EFAULT, -EIO, and 0
ErrorCodes == {-22, -2, -12, -17, -19, -14, -EIO, 0}

\* exception types derived from std::exception, vaccel_error among them
StdExceptions == {"vaccel_error", "std::bad_alloc", "std::runtime_error",
                  "std::out_of_range"}
OtherThrown == {"int", "const char *"}

WrappedCalls ==
    {[kind |-> "returns", type |-> "none", code |-> 0]}
        \cup {[kind |-> "throws", type |-> "vaccel_error", code |-> c] :
                  c \in ErrorCodes}
        \cup {[kind |-> "throws", type |-> ty, code |-> 0] :
                  ty \in (StdExceptions \ {"vaccel_error"}) \cup OtherThrown}

\* does a catch clause take an exception of the type
Catches(clause, type) ==
    \/ clause = "..."
    \/ clause = type
    \/ clause = "std::exception" /\ type \in StdExceptions

\* the body of a catch clause: log, then the return value
CatchBody(clause, func, f) ==
    [ret |-> IF clause = "vaccel_error" THEN f.code ELSE -EIO,
     escaped |-> FALSE, log |-> <<func>>]

\* the clauses of a try block are tried in the order they are written; an
\* exception none of them takes leaves the function
RECURSIVE try_catch(_, _, _, _)
try_catch(clauses, i, func, f) ==
    IF i > Len(clauses) THEN [ret |-> 0, escaped |-> TRUE, log |-> <<>>]
    ELSE IF Catches(clauses[i], f.type) THEN CatchBody(clauses[i], func, f)
    ELSE try_catch(clauses, i + 1, func, f)

\* the boundary with the std::exception clause written first
vaccel_error_wrap_base_first(func, f) ==
    IF f.kind = "returns" THEN [ret |-> 0, escaped |-> FALSE, log |-> <<>>]
    ELSE try_catch(<<"std::exception", "vaccel_error", "...">>, 1, func, f)

\* vaccel_error_wrap
vaccel_error_wrap(func, f) ==
    IF f.kind = "returns" THEN [ret |-> 0, escaped |-> FALSE, log |-> <<>>]
    ELSE try_catch(<<"vaccel_error", "std::exception", "...">>, 1, func, f)

WrapInit ==
    wrapped = [func |-> "none", f |-> [kind |-> "returns", type |-> "none", code |-> 0],
               result |-> [ret |-> 0, escaped |-> FALSE, log |-> <<>>]]

\* an entry point runs its body f inside vaccel_error_wrap
WrapCall(func, f) ==
    /\ wrapped' = [func |-> func, f |-> f, result |-> vaccel_error_wrap(func, f)]
    /\ UNCHANGED nonWrapVars

WrapNext == \E func \in WrapFuncs, f \in WrappedCalls : WrapCall(func, f)

(***************************************************************************)
(* The constructor of a resource-backed vxdna_bo.  Addresses and sizes are *)
(* bytes; the address space is mapped in pages of PageSize bytes, and the  *)
(* kernel places a mapping it may choose at a page boundary.               *)
(***************************************************************************)
PageSize == 4
MapAligns == 0..(2 * PageSize)
MapSizes == {PageSize, 2 * PageSize}
ResvBases == {PageSize * k : k \in 1..5}
BoFailures == {"none", "create_bo", "get_bo_info", "reserve", "map"}

\* a & b on unsigned integers
RECURSIVE BitAnd(_, _)
BitAnd(a, b) ==
    IF a = 0 \/ b = 0 THEN 0
    ELSE (a % 2) * (b % 2) + 2 * BitAnd(a \div 2, b \div 2)

\* (resv_vaddr + map_align - 1) & ~(map_align - 1)
va_to_map(resv_vaddr, map_align) ==
    (resv_vaddr + map_align - 1) - BitAnd(resv_vaddr + map_align - 1, map_align - 1)

\* the pages that hold a byte of [addr, addr + len)
PagesOf(addr, len) ==
    IF len = 0 THEN {} ELSE (addr \div PageSize)..((addr + len - 1) \div PageSize)

\* munmap(addr, len) on the set of mapped pages: EINVAL, and no effect, for
\* an address that is not a multiple of the page size
munmap(mapped, addr, len) ==
    IF addr % PageSize # 0 THEN mapped ELSE mapped \ PagesOf(addr, len)

NoBoMap ==
    [map_align |-> 0, map_size |-> PageSize, resv |-> PageSize, thrown |-> "none",
     made |-> FALSE, handle_open |-> FALSE, vaddr |-> 0, mapped |-> {}]

\* vxdna_bo::vxdna_bo(res, ctx_fd, req): CREATE_BO, GET_BO_INFO, the
\* reservation, the mapping of the BO and the unmapping of the slack.  base
\* is the page-aligned address the kernel picks for the mapping it places
\* itself; fail names the call that fails, if any.  A constructor that
\* throws runs no destructor.
vxdna_bo(map_align, map_size, base, fail) ==
    LET rec == [NoBoMap EXCEPT !.map_align = map_align, !.map_size = map_size,
                               !.resv = base]
        resv_size == IF map_align # 0 THEN map_size + map_align ELSE 0
        resv_vaddr == IF map_align # 0 THEN base ELSE 0
        reserved == IF map_align # 0 THEN PagesOf(base, resv_size) ELSE {}
        va == IF map_align # 0 THEN va_to_map(resv_vaddr, map_align) ELSE base
        mapped1 == reserved \cup PagesOf(va, map_size)
        mapped2 == IF map_align # 0 /\ va > resv_vaddr
                   THEN munmap(mapped1, resv_vaddr, va - resv_vaddr) ELSE mapped1
        mapped3 == IF resv_vaddr + resv_size > va + map_size
                   THEN munmap(mapped2, va + map_size,
                               resv_vaddr + resv_size - va - map_size)
                   ELSE mapped2
    IN  IF fail = "create_bo" THEN [rec EXCEPT !.thrown = "errno"]
        ELSE IF fail = "get_bo_info"
             THEN [rec EXCEPT !.thrown = "errno", !.handle_open = TRUE]
        ELSE IF map_align # 0 /\ fail = "reserve"
             THEN [rec EXCEPT !.thrown = "ENOMEM", !.handle_open = TRUE]
        ELSE IF fail = "map" \/ (map_align # 0 /\ va % PageSize # 0)
             THEN [rec EXCEPT !.thrown = "EFAULT", !.handle_open = TRUE]
        ELSE [rec EXCEPT !.made = TRUE, !.handle_open = TRUE, !.vaddr = va,
                         !.mapped = mapped3]

BoInit == bo_map = NoBoMap

\* a create_bo CCMD constructs a resource-backed BO
BoConstruct(map_align, map_size, base, fail) ==
    /\ bo_map' = vxdna_bo(map_align, map_size, base, fail)
    /\ UNCHANGED nonBoVars

BoNext ==
    \E map_align \in MapAligns, map_size \in MapSizes, base \in ResvBases,
       fail \in BoFailures : BoConstruct(map_align, map_size, base, fail)

(***************************************************************************)
(* get_info buffer sizing (vaccel_amdxdna.cpp, vxdna_context::get_info).   *)
(* The request's size and num_element are uint32_t; the model keeps the    *)
(* unsigned width with UintBits bits instead of 32.                        *)
(***************************************************************************)
UintBits == 4
UintMax == 2 ^ UintBits - 1
Uints == 0..UintMax
InfoResLens == {8, UintMax}
\* what DRM_IOCTL_AMDXDNA_GET_INFO / GET_ARRAY does with the sizes it was
\* given: fail, leave them, or return fewer elements / a shorter buffer
InfoIoctls == {"fail", "full", "short"}

NoInfo == [size |-> 0, num_element |-> 0, thrown |-> "none", res_read |-> FALSE,
           ioctl |-> FALSE, sized |-> FALSE, info_buf |-> 0, written |-> 0,
           rsp |-> FALSE]

\* the overflow test of get_info dropped: info_size is the wrapped product
get_info_unchecked(size, num_element, res_len, k) ==
    LET info_size == IF num_element # 0 THEN (size * num_element) % (UintMax + 1)
                     ELSE size
        mem == <<[i \in 1..res_len |-> 0]>>
        rd == read(mem, 0, info_size)
        el == IF k = "short" THEN num_element - 1 ELSE num_element
        bs == IF k = "short" /\ size > 0 THEN size - 1 ELSE size
        out == IF num_element # 0 THEN (size * el) % (UintMax + 1) ELSE bs
        wr == write(mem, 0, [i \in 1..out |-> 0])
        r0 == [NoInfo EXCEPT !.size = size, !.num_element = num_element,
                             !.sized = TRUE, !.info_buf = info_size,
                             !.res_read = TRUE]
    IN  IF rd.thrown THEN [r0 EXCEPT !.thrown = "EINVAL"]
        ELSE IF k = "fail" THEN [r0 EXCEPT !.ioctl = TRUE, !.thrown = "errno"]
        ELSE IF wr.thrown
        THEN [r0 EXCEPT !.ioctl = TRUE, !.thrown = "EINVAL", !.written = wr.bytes]
        ELSE [r0 EXCEPT !.ioctl = TRUE, !.written = wr.bytes, !.rsp = TRUE]

\* vxdna_context::get_info from the overflow check on, the info resource
\* found and res_len bytes long: the scratch buffer length, the calls made
\* and the bytes written back to the resource
get_info_buf(size, num_element, res_len, k) ==
    IF num_element # 0 /\ size > 0 /\ num_element > UintMax \div size
    THEN [NoInfo EXCEPT !.size = size, !.num_element = num_element,
                        !.thrown = "EINVAL"]
    ELSE LET info_size == IF num_element # 0
                          THEN (size * num_element) % (UintMax + 1) ELSE size
             mem == <<[i \in 1..res_len |-> 0]>>
             rd == read(mem, 0, info_size)
             el == IF k = "short" THEN num_element - 1 ELSE num_element
             bs == IF k = "short" /\ size > 0 THEN size - 1 ELSE size
             out == IF num_element # 0 THEN (size * el) % (UintMax + 1) ELSE bs
             wr == write(mem, 0, [i \in 1..out |-> 0])
             r0 == [NoInfo EXCEPT !.size = size, !.num_element = num_element,
                                  !.sized = TRUE, !.info_buf = info_size,
                                  !.res_read = TRUE]
         IN  IF rd.thrown THEN [r0 EXCEPT !.thrown = "EINVAL"]
             ELSE IF k = "fail" THEN [r0 EXCEPT !.ioctl = TRUE, !.thrown = "errno"]
             ELSE IF wr.thrown
             THEN [r0 EXCEPT !.ioctl = TRUE, !.thrown = "EINVAL", !.written = wr.bytes]
             ELSE [r0 EXCEPT !.ioctl = TRUE, !.written = wr.bytes, !.rsp = TRUE]

InfoInit == info = NoInfo

GetInfo(size, num_element, res_len, k) ==
    /\ info' = get_info_buf(size, num_element, res_len, k)
    /\ UNCHANGED nonInfoVars

InfoNext ==
    \E size \in Uints, num_element \in Uints, res_len \in InfoResLens, k \in InfoIoctls :
        GetInfo(size, num_element, res_len, k)

(***************************************************************************)
(* exec_cmd (vaccel_amdxdna.cpp, vxdna_hwctx::exec_cmd and                 *)
(* vxdna_context::exec_cmd on a hwctx that exists): the argument of        *)
(* DRM_IOCTL_AMDXDNA_EXEC_CMD and the sequence number of the response.     *)
(***************************************************************************)
MaxCmdCount == 3
CmdWords == {1, 2}
Seqs == 1..3
ExecIoctls == {"OK", "errno"}
\* cmds_n_args holds cmd_count command handles, then the arguments
CmdsNArgs == UNION {[1..n -> CmdWords] : n \in 0..2}

NoExec == [called |-> FALSE, cmd_count |-> 0, cmds_n_args |-> <<>>,
           cmd_handles |-> [kind |-> "inline", val |-> 0], args |-> 0,
           thrown |-> "none", ioctl_seq |-> 0, rsp_seq |-> 0]

\* vxdna_hwctx::exec_cmd and the response of vxdna_context::exec_cmd; word0
\* is what cmds_n_args[0] reads when the request carries no word there
hwctx_exec_cmd(cmd_count, cmds_n_args, arg_offset, word0, ioc, seq) ==
    LET cmd_handles ==
            IF cmd_count > 1 THEN [kind |-> "pointer", val |-> 0]
            ELSE [kind |-> "inline",
                  val |-> IF Len(cmds_n_args) > 0 THEN cmds_n_args[1] ELSE word0]
        r0 == [NoExec EXCEPT !.called = TRUE, !.cmd_count = cmd_count,
                             !.cmds_n_args = cmds_n_args,
                             !.cmd_handles = cmd_handles, !.args = arg_offset]
    IN  IF ioc # "OK" THEN [r0 EXCEPT !.thrown = ioc]
        ELSE [r0 EXCEPT !.ioctl_seq = seq, !.rsp_seq = seq]

ExecInit == exec = NoExec

ExecCmd(cmd_count, cmds_n_args, arg_offset, word0, ioc, seq) ==
    /\ exec' = hwctx_exec_cmd(cmd_count, cmds_n_args, arg_offset, word0, ioc, seq)
    /\ UNCHANGED nonExecVars

ExecNext ==
    \E cmd_count \in 0..MaxCmdCount, cmds_n_args \in CmdsNArgs, arg_offset \in 0..2,
       word0 \in CmdWords, ioc \in ExecIoctls, seq \in Seqs :
        ExecCmd(cmd_count, cmds_n_args, arg_offset, word0, ioc, seq)

(***************************************************************************)
(* Destruction of one vxdna_context (vaccel_amdxdna.h).  The destructor    *)
(* body runs first, then the members are destroyed in the reverse of       *)
(* their declaration: hwctx_table, bo_table, resp_res.  ioctls is the      *)
(* list of the ioctls issued on the Context's fd, each with whether the    *)
(* fd was open when it was issued.                                         *)
(***************************************************************************)
MaxCtxObjs == 3
CtxBos == {1, 2}
CtxHwctxs == {1, 2}

\* what callbacks->get_device_fd returns: a DRM fd, or a negative errno
DeviceFds == {-19, 3, 4}
SetNameIoctls == {"OK", "errno"}

\* no Context yet.  get_fd_calls and closes count the get_device_fd calls
\* made for the Context and the close calls made on its fd
NoCtxLife == [pc |-> "none", fd |-> 0, fd_open |-> FALSE, in_table |-> FALSE,
              thrown |-> "none", get_fd_calls |-> 0, closes |-> 0,
              bo_table |-> {}, hwctx_table |-> {}, made |-> 0, ioctls |-> <<>>]

Ioctl(name, c) == [name |-> name, fd_open |-> c.fd_open]

\* ~vxdna_bo: munmap, then DRM_IOCTL_GEM_CLOSE on ctx_fd
destroy_bo(c, h) ==
    [c EXCEPT !.bo_table = @ \ {h},
              !.ioctls = Append(@, Ioctl("GEM_CLOSE", c))]

\* ~vxdna_hwctx: the retirement thread is joined, then SYNCOBJ_DESTROY and
\* DESTROY_HWCTX on ctx_fd
destroy_hwctx(c, h) ==
    [c EXCEPT !.hwctx_table = @ \ {h},
              !.ioctls = @ \o <<Ioctl("SYNCOBJ_DESTROY", c), Ioctl("DESTROY_HWCTX", c)>>]

\* ~vxdna_context body: close(get_fd())
close_first(c) ==
    [c EXCEPT !.fd_open = FALSE, !.pc = "members", !.in_table = FALSE,
              !.closes = @ + 1]

\* vxdna::create_ctx for a ctx_id that is not in the table: fd is what
\* get_drm_fd returned, named says name && nlen, ioc is the outcome of
\* DRM_IOCTL_SET_CLIENT_NAME on a valid fd
create_ctx(fd, named, ioc) ==
    LET ctx == [NoCtxLife EXCEPT !.fd = fd, !.fd_open = (fd >= 0),
                                 !.get_fd_calls = 1]
        set_name == [ctx EXCEPT !.ioctls = <<Ioctl("SET_CLIENT_NAME", ctx)>>]
    IN  IF named /\ (fd < 0 \/ ioc # "OK")
        THEN [close_first(set_name) EXCEPT !.pc = "gone", !.thrown = "errno"]
        ELSE IF named
        THEN [set_name EXCEPT !.pc = "live", !.in_table = TRUE]
        ELSE [ctx EXCEPT !.pc = "live", !.in_table = TRUE]

CtxLifeInit == ctx_life = NoCtxLife

\* create_context through vaccel<vxdna, vxdna_context>::create_ctx
CtxCreate(fd, named, ioc) ==
    /\ ctx_life.pc = "none"
    /\ ctx_life' = create_ctx(fd, named, ioc)
    /\ UNCHANGED nonCtxLifeVars

\* create_bo / create_hwctx on the live Context: CREATE_BO, CREATE_HWCTX
CtxAddBo(h) ==
    /\ ctx_life.pc = "live" /\ h \notin ctx_life.bo_table
    /\ ctx_life.made < MaxCtxObjs
    /\ ctx_life' = [ctx_life EXCEPT !.bo_table = @ \cup {h}, !.made = @ + 1]
    /\ UNCHANGED nonCtxLifeVars

CtxAddHwctx(h) ==
    /\ ctx_life.pc = "live" /\ h \notin ctx_life.hwctx_table
    /\ ctx_life.made < MaxCtxObjs
    /\ ctx_life' = [ctx_life EXCEPT !.hwctx_table = @ \cup {h}, !.made = @ + 1]
    /\ UNCHANGED nonCtxLifeVars

\* remove_bo / remove_hwctx on the live Context
CtxRemoveBo(h) ==
    /\ ctx_life.pc = "live" /\ h \in ctx_life.bo_table
    /\ ctx_life' = destroy_bo(ctx_life, h)
    /\ UNCHANGED nonCtxLifeVars

CtxRemoveHwctx(h) ==
    /\ ctx_life.pc = "live" /\ h \in ctx_life.hwctx_table
    /\ ctx_life' = destroy_hwctx(ctx_life, h)
    /\ UNCHANGED nonCtxLifeVars

\* the last shared_ptr to the Context goes: ~vxdna_context body
CtxDtorBody ==
    /\ ctx_life.pc = "live"
    /\ ctx_life' = close_first(ctx_life)
    /\ UNCHANGED nonCtxLifeVars

\* ~vaccel_map of hwctx_table: its hwctxs are destroyed, in any order
CtxDtorHwctx(h) ==
    /\ ctx_life.pc = "members" /\ h \in ctx_life.hwctx_table
    /\ ctx_life' = destroy_hwctx(ctx_life, h)
    /\ UNCHANGED nonCtxLifeVars

\* ~vaccel_map of bo_table, after hwctx_table
CtxDtorBo(h) ==
    /\ ctx_life.pc = "members" /\ ctx_life.hwctx_table = {}
    /\ h \in ctx_life.bo_table
    /\ ctx_life' = destroy_bo(ctx_life, h)
    /\ UNCHANGED nonCtxLifeVars

\* the last member is destroyed
CtxDtorDone ==
    /\ ctx_life.pc = "members"
    /\ ctx_life.hwctx_table = {} /\ ctx_life.bo_table = {}
    /\ ctx_life' = [ctx_life EXCEPT !.pc = "gone"]
    /\ UNCHANGED nonCtxLifeVars

CtxLifeNext ==
    \/ \E fd \in DeviceFds, named \in BOOLEAN, ioc \in SetNameIoctls :
           CtxCreate(fd, named, ioc)
    \/ \E h \in CtxBos : CtxAddBo(h) \/ CtxRemoveBo(h) \/ CtxDtorBo(h)
    \/ \E h \in CtxHwctxs : CtxAddHwctx(h) \/ CtxRemoveHwctx(h) \/ CtxDtorHwctx(h)
    \/ CtxDtorBody
    \/ CtxDtorDone

Init == FenceInit /\ DispInit /\ RegInit /\ ApiInit /\ ResInit /\ WrapInit /\ BoInit /\ InfoInit /\ ExecInit /\ CtxLifeInit

SpecFence == Init /\ [][FenceNext]_vars

\* The scheduler runs the polling thread and a started destructor; every
\* timeline wait is bounded by its timeout, so it returns.
SpecFenceFair ==
    /\ Init
    /\ [][FenceNext]_vars
    /\ WF_vars(ThreadStep)
    /\ WF_vars(DtorNotify)
    /\ WF_vars(DtorJoin)

SpecDispatch == Init /\ [][DispNext]_vars

SpecRegistry == Init /\ [][RegNext]_vars

SpecCtx == Init /\ [][CtxNext]_vars

SpecApi == Init /\ [][ApiNext]_vars

SpecResource == Init /\ [][ResNext]_vars

SpecWrap == Init /\ [][WrapNext]_vars

SpecBo == Init /\ [][BoNext]_vars

SpecInfo == Init /\ [][InfoNext]_vars

SpecExec == Init /\ [][ExecNext]_vars

SpecCtxLife == Init /\ [][CtxLifeNext]_vars

(***************************************************************************)
(* Claims about the fence worker                                           *)
(***************************************************************************)

\* C1: every fence submitted to the hwctx through submit_fence has
\* write_context_fence invoked exactly once: never twice, and eventually at
\* least once under fair scheduling and finite wait timeouts.
C1_ExactlyOnce ==
    /\ [](\A f \in FenceIds : CallCount(f) <= 1)
    /\ \A f \in FenceIds : (f \in SubmittedIds) ~> (f \in CallIds)

\* the fences submitted to the hwctx, not to the free-floating ring
HwctxIds == {f \in SubmittedIds : PathOf(f) # "free"}

\* C2 as stated: whenever the callback for a fence of the hwctx has been
\* invoked, the callback of every fence submitted to the hwctx before it was
\* invoked earlier, whichever path either fence took.
C2_SubmitOrder ==
    \A i \in 1..Len(calls) : \A f1 \in HwctxIds :
        (calls[i].ring = "H" /\ f1 < calls[i].id) =>
            \E k \in 1..(i - 1) : calls[k].id = f1

\* C2 amended: the callback of an earlier fence precedes the callback of a
\* later fence except when the earlier one took the queued path and the later
\* one the synchronous path.
C2_OrderExceptQueuedThenSync ==
    \A i \in 1..Len(calls) : \A f1 \in HwctxIds :
        (calls[i].ring = "H" /\ f1 < calls[i].id) =>
            \/ \E k \in 1..(i - 1) : calls[k].id = f1
            \/ (PathOf(f1) = "queued" /\ PathOf(calls[i].id) = "sync")

\* C2 witness: two fences that both took the queued path have been retired by
\* the polling thread, and a synchronous fence was retired after a queued one.
C2_Witness ==
    /\ Len(calls) = 3
    /\ calls[1].by = "worker" /\ calls[2].by = "worker" /\ calls[3].by = "caller"
    /\ calls[3].ring = "H"
    /\ calls[1].id < calls[2].id /\ calls[2].id < calls[3].id

\* C3: once the hwctx has been destroyed (stop set, thread joined), every
\* fence that was enqueued on the pending queue has had its callback invoked.
C3_QueuedRetiredAtDestroy ==
    hw = "dead" => QueuedIds \subseteq CallIds

C16_FreeFenceDirect ==
    /\ [](\A f \in FreeIds :
             /\ CallCount(f) = 1
             /\ \E i \in 1..Len(calls) :
                    calls[i] = [id |-> f, by |-> "caller", ring |-> "INVALID"])
    /\ [][(Len(submitted') > Len(submitted)
              /\ submitted'[Len(submitted')].path = "free") =>
             UNCHANGED <<hw, has_sync_point, sync_point, timeout_nsec, pending_fences,
                         tmp_pending_fences, notified, fences_lock, thr_pc, armed>>]_vars

\* C16 witness: the callback of a free-floating fence was the last one
\* invoked, while the hwctx of the Context holds a latched sync point and an
\* older fence still waits in its pending queue.
C16_Witness ==
    /\ Len(calls) >= 1
    /\ calls[Len(calls)].ring = "INVALID"
    /\ hw = "live"
    /\ has_sync_point /\ armed
    /\ pending_fences # <<>>
    /\ pending_fences[1].id < calls[Len(calls)].id

\* C17: a submit_fence on a hwctx for which no wait_cmd has latched a sync
\* point since the hwctx was created or since its last submit_fence invokes
\* write_context_fence with the fence id on the caller's thread, enqueues
\* nothing and leaves the slot Empty.
C17_EmptySlotSynchronous ==
    [][(hw = "live" /\ ~armed
          /\ Len(submitted') > Len(submitted)
          /\ submitted'[Len(submitted')].path # "free") =>
         /\ calls' = Append(calls, [id |-> Len(submitted'), by |-> "caller",
                                    ring |-> "H"])
         /\ pending_fences' = pending_fences
         /\ ~has_sync_point']_vars

\* the step is a submit_fence on the ring of the hwctx
HwctxSubmit ==
    /\ Len(submitted') > Len(submitted)
    /\ submitted'[Len(submitted')].path # "free"

\* C39: a newly created hwctx starts with an Empty sync-point slot and an
\* empty pending queue, so the first submit_fence with no wait_cmd before it
\* takes the synchronous path and enqueues no Fence built from a sync point
\* or timeout that was never set.
C39_NewHwctxEmpty ==
    [][/\ (hw = "none" /\ hw' = "live") =>
              ~has_sync_point' /\ pending_fences' = <<>>
       /\ (HwctxSubmit /\ ~armed /\ \A i \in DOMAIN submitted : submitted[i].path = "free") =>
              /\ submitted'[Len(submitted')].path = "sync"
              /\ pending_fences' = <<>>]_vars

\* C28: the sync-point slot of a hwctx changes only by wait_cmd, to Latched
\* with the latest (seq, timeout), and by a submit_fence that finds it
\* Latched, to Empty; that submit_fence enqueues exactly one fence carrying
\* the latched seq and timeout; a submit_fence that follows with no wait_cmd
\* in between is retired synchronously and enqueues nothing.
C28_SlotProtocol ==
    [][/\ has_sync_point' # has_sync_point =>
              \/ has_sync_point' /\ armed' /\ submitted' = submitted
              \/ ~has_sync_point' /\ armed /\ HwctxSubmit
       /\ (HwctxSubmit /\ armed) =>
              /\ submitted'[Len(submitted')].path = "queued"
              /\ pending_fences' =
                     Append(pending_fences,
                            vaccel_fence(Len(submitted'), sync_point, timeout_nsec))
              /\ ~has_sync_point'
       /\ Len(pending_fences') > Len(pending_fences) => armed
       /\ (HwctxSubmit /\ ~armed) =>
              /\ submitted'[Len(submitted')].path = "sync"
              /\ pending_fences' = pending_fences]_vars

\* C29: under fair scheduling and finite wait timeouts the destruction of a
\* hwctx terminates: once ~vxdna_hwctx has started, the polling thread
\* observes stop_polling and exits and the join returns.
C29_DestructionTerminates ==
    (hw = "closing") ~> (thr_pc = "exited" /\ hw = "dead")

\* C30: the polling thread does not hold fences_lock while it is in
\* SYNCOBJ_TIMELINE_WAIT or in write_context_fence: it takes the whole queue
\* under the lock, releases the lock, then waits and calls back; a fence
\* submitted meanwhile is queued without joining the batch being retired, and
\* the thread calls back only for fences of the batch it took.
C30_NoLockWhileRetiring ==
    /\ [](thr_pc \in {"wait", "cb"} => fences_lock = "free")
    /\ [][/\ (thr_pc = "woken" /\ thr_pc' = "wait") =>
               /\ tmp_pending_fences' = pending_fences
               /\ pending_fences' = <<>>
               /\ fences_lock' = "free"
          /\ (thr_pc \in {"wait", "cb"} /\ HwctxSubmit
                  /\ submitted'[Len(submitted')].path = "queued") =>
               /\ tmp_pending_fences' = tmp_pending_fences
               /\ Len(pending_fences') = Len(pending_fences) + 1
               /\ pending_fences'[Len(pending_fences')].id = Len(submitted')
          /\ (Len(calls') > Len(calls) /\ calls'[Len(calls')].by = "worker") =>
               /\ thr_pc = "cb"
               /\ calls'[Len(calls')].id = Head(tmp_pending_fences).id
               /\ pending_fences' = pending_fences]_vars

\* C30 witness: after an earlier batch was retired the thread waits on a later
\* batch, the lock is free, and a fence submitted meanwhile is queued
C30_Witness ==
    /\ thr_pc = "wait"
    /\ fences_lock = "free"
    /\ tmp_pending_fences # <<>>
    /\ pending_fences # <<>>
    /\ \E i \in 1..Len(calls) : calls[i].by = "worker"

(***************************************************************************)
(* Claims about CCMD dispatch                                              *)
(***************************************************************************)
ValidCmd == last.cmd \in 1..NumCmds
LongEnough == ValidCmd /\ last.len >= SizeOf(last.cmd)
ErrRspSize == RspWords("amdxdna_ccmd_rsp")
IsErrRsp(w) == w.rsp.kind = "amdxdna_ccmd_rsp"
Writes == {last.writes[i] : i \in 1..Len(last.writes)}
RspCmds == {"create_bo", "create_ctx", "exec_cmd", "get_info", "read_sysfs"}
SilentCmds == {"nop", "init", "destroy_bo", "destroy_ctx", "config_ctx"}
RspKindOf(name) ==
    CASE name = "create_bo"  -> "create_bo_rsp"
      [] name = "create_ctx" -> "create_ctx_rsp"
      [] name = "exec_cmd"   -> "exec_cmd_rsp"
      [] name = "get_info"   -> "get_info_rsp"
      [] name = "read_sysfs" -> "read_sysfs_rsp"

\* C4: a header whose cmd is 0 or above 11 is rejected with -EINVAL without
\* the dispatch table being indexed, without a handler being invoked and
\* without a change of Context or Device state.
C4_BadCmdRejected ==
    (last.cmd = 0 \/ last.cmd > NumCmds) =>
        /\ last.ret = "EINVAL"
        /\ last.indexed = "no"
        /\ last.invoked = "none"
        /\ ~last.changed

\* C5: a request shorter than the request struct but holding the whole
\* header is dispatched: the handler runs on a buffer whose first len words
\* are the guest's and whose words from len up to the struct size are zero.
C5_ShortRequestWidened ==
    (ValidCmd /\ HdrWords <= last.len /\ last.len < SizeOf(last.cmd)) =>
        /\ last.invoked = amdxdna_ccmd_dispatch_table[last.cmd].name
        /\ Len(last.buf) = SizeOf(last.cmd)
        /\ \A i \in 1..Len(last.buf) :
               last.buf[i] = IF i <= last.len THEN i ELSE 0

C7_ErrorReported ==
    (last.raised \notin {"OK", "none"}) =>
        /\ last.ret = last.raised
        /\ \E w \in Writes :
               /\ IsErrRsp(w)
               /\ w.rsp.ret = last.raised
               /\ w.rsp.len = ErrRspSize
               /\ w.written = ErrRspSize

C37_FailedCcmdLeavesState ==
    (last.invoked \in {"create_bo", "create_ctx", "wait_cmd"} /\ last.ret # "OK")
        => ~last.changed

\* C31: once an init CCMD has bound a response Resource to the Context the
\* binding never changes, whatever CCMD is dispatched afterwards.
C31_ResponseResourceSetOnce ==
    [][resp_res # {} => resp_res' = resp_res]_vars

(***************************************************************************)
(* Claims about the device registry                                        *)
(***************************************************************************)

\* C9: from the return of a vaccel_create(c) with 0 until vaccel_destroy(c)
\* is called, the table maps c to the Device that call registered and every
\* lookup of c returns it, whatever the callers do with other cookies (no
\* other call for c was under way when the create returned).
C9_StableLookup ==
    /\ \A c \in Cookies :
           (created[c] # NoDev /\ clean[c]) => device_table[c] = created[c]
    /\ (last_lookup.expected # NoDev /\ last_lookup.clean) =>
           last_lookup.dev = last_lookup.expected

\* C9 witness: a lookup of cookie 1 returned the Device a create registered
\* for it while another caller has just erased the entry of cookie 2.
C9_Witness ==
    /\ created[1] # NoDev
    /\ clean[1]
    /\ last_lookup.cookie = 1
    /\ last_lookup.dev = created[1]
    /\ \E t \in Threads :
           /\ thr[t].op = "destroy"
           /\ thr[t].cookie = 2
           /\ thr[t].pc = "done"
           /\ thr[t].wrote

\* C10: a vaccel_create that returned -EEXIST, or -EINVAL for a capset
\* other than AMDXDNA, has not written the table and has not closed the
\* DRM fd of the registered Device; and at most one vaccel_create per
\* cookie has returned 0 since vaccel_destroy was last called for it.
C10_RejectedCreateHarmless ==
    /\ \A t \in Threads :
           (thr[t].op = "create" /\ thr[t].pc = "done"
                /\ (thr[t].ret = "EEXIST"
                        \/ (thr[t].ret = "EINVAL" /\ ~thr[t].wrote))) =>
               (~thr[t].wrote /\ ~thr[t].closed)
    /\ \A c \in Cookies : winners[c] <= 1

\* C11: a vaccel_destroy(c) called while no Device is registered for c (c
\* was destroyed before, or never created) and with no other call for c
\* under way returns without having written device_table and without
\* having destroyed a Device (no DRM fd closed).
C11_DestroyAbsentNoop ==
    \A t \in Threads :
        (thr[t].op = "destroy" /\ thr[t].pc = "done"
             /\ thr[t].absent /\ thr[t].alone) =>
            (~thr[t].wrote /\ ~thr[t].closed)

\* C11 witness: a second vaccel_destroy(1) has returned after the Device of
\* cookie 1 was destroyed, while the Device of cookie 2 is registered.
C11_Witness ==
    /\ ~fd_open[1]
    /\ device_table[1] = NoDev
    /\ device_table[2] # NoDev
    /\ \E t \in Threads :
           /\ thr[t].op = "destroy"
           /\ thr[t].cookie = 1
           /\ thr[t].pc = "done"
           /\ thr[t].absent
           /\ thr[t].alone
           /\ ~thr[t].wrote

(***************************************************************************)
(* Claims about the entry points on a Device's tables                      *)
(***************************************************************************)
SameContext(t1, t2) ==
    /\ cthr[t1].impl = cthr[t2].impl
    /\ cthr[t1].ctx_id = cthr[t2].ctx_id
    /\ cthr[t1].impl = "c" => cthr[t1].cookie = cthr[t2].cookie

TableOf(t) == IF cthr[t].impl = "c" THEN ctx_tab[cthr[t].cookie] ELSE cxx_ctx_tab

\* C13: a create_context that returned -EEXIST has left the heap the
\* existing Context lives in alone (it freed nothing twice); of the
\* create_context calls for one ctx_id of one Device that have returned, at
\* most one returned 0, and the table holds the Context that call created.
C13_OneCreateWins ==
    /\ \A t \in CThreads :
           (cthr[t].pc = "done" /\ cthr[t].ret = "EEXIST") => cthr[t].frees <= 1
    /\ \A t1, t2 \in CThreads :
           (t1 # t2 /\ cthr[t1].pc = "done" /\ cthr[t2].pc = "done"
                /\ SameContext(t1, t2)) =>
               ~(cthr[t1].ret = "OK" /\ cthr[t2].ret = "OK")
    /\ \A t \in CThreads :
           (cthr[t].pc = "done" /\ cthr[t].ret = "OK") =>
               \E e \in TableOf(t) : e.ctx_id = cthr[t].ctx_id /\ e.obj = cthr[t].obj

\* C14: an entry point called with a cookie for which no Device is
\* registered changes no table and stores nothing through its output
\* pointers; create_resource, export_resource_fd, submit_ccmd, submit_fence,
\* get_capset_info and fill_capset return -ENODEV whatever their other
\* arguments, get_fence_fd returns -1, destroy_context and destroy_resource
\* just return; create_context returns -ENODEV without allocating a Context.
C14_NoDeviceNoEffect ==
    /\ (api_last.op \notin {"none", "create_device", "destroy_device"}
            /\ ~api_last.dev) =>
           /\ ~api_last.changed
           /\ api_last.out = NoOut
           /\ api_last.ret =
                  CASE api_last.op \in {"destroy_context", "destroy_resource"} -> "void"
                    [] api_last.op = "get_fence_fd" -> "-1"
                    [] OTHER -> "ENODEV"
    /\ \A t \in CThreads :
           (cthr[t].pc # "idle" /\ cthr[t].impl = "c"
                /\ cthr[t].cookie \notin DevCookies) =>
               /\ cthr[t].pc = "done"
               /\ cthr[t].ret = "ENODEV"
               /\ cthr[t].obj = NoObj
               /\ ctx_tab[cthr[t].cookie] = {}

\* C14 witness: fill_capset with an unsupported capset id on the cookie
\* without Device returned -ENODEV, while the Device of the other cookie
\* holds a Context, a Resource and a fence.
C14_Witness ==
    /\ api_last.op = "fill_capset"
    /\ api_last.cookie = 2
    /\ ~api_last.dev
    /\ ~api_last.found
    /\ api_last.ret = "ENODEV"
    /\ ctx_tab[1] # {}
    /\ res_tab[1] # {}
    /\ fence_tab[1] # {}

\* C15: submit_fence for a ctx_id that is not in the Context table returns
\* -ENOENT, invokes write_context_fence for nothing and adds nothing to a
\* fence table, through the C entry point and through vxdna::submit_fence.
C15_SubmitFenceNoContext ==
    (api_last.op \in {"submit_fence", "cxx_submit_fence"}
         /\ api_last.dev /\ ~api_last.found) =>
        /\ api_last.ret = "ENOENT"
        /\ api_last.out.cb = <<>>
        /\ ~api_last.changed

\* C18: get_capset_info for the AMDXDNA capset on an existing Device returns
\* 0 and stores max_version = 1 and max_size = 16 through the pointers that
\* are not NULL, whatever was done on the Device before; fill_capset copies
\* the same immutable capset each time.
C18_CapsetInfo ==
    /\ (api_last.op = "get_capset_info" /\ api_last.dev /\ api_last.found) =>
           /\ api_last.ret = "OK"
           /\ api_last.out.max_version \in {<<>>, <<1>>}
           /\ api_last.out.max_size \in {<<>>, <<16>>}
    /\ (api_last.op = "fill_capset" /\ api_last.ret = "OK") =>
           api_last.out.buf = vaccel_capset_instance

C20_WriteReadRoundTrip ==
    (rw.w # <<>> /\ rw.w[1].off + Len(rw.w[1].buf) <= TotalLen(iov_mem)) =>
        /\ ~rw.w[1].thrown
        /\ rw.w[1].bytes = Len(rw.w[1].buf)
        /\ rw.r # <<>> =>
               /\ ~rw.r[1].thrown
               /\ rw.r[1].bytes = Len(rw.w[1].buf)
               /\ rw.r[1].out = rw.w[1].buf

\* C20 witness: two bytes written at offset 1 of a Resource whose three
\* iovecs are 2, 0 and 1 bytes long, the range ending in the last iovec,
\* have been read back.
C20_Witness ==
    /\ Len(iov_mem) = 3
    /\ Len(iov_mem[1]) = 2 /\ Len(iov_mem[2]) = 0 /\ Len(iov_mem[3]) = 1
    /\ rw.w # <<>> /\ rw.r # <<>>
    /\ rw.w[1].off = 1
    /\ rw.w[1].buf = <<1, 2>>
    /\ rw.r[1].out = <<1, 2>>
    /\ iov_mem[3] = <<2>>

\* the bytes behind the iovecs in the order of the list
RECURSIVE Flat(_)
Flat(mem) == IF mem = <<>> THEN <<>> ELSE Head(mem) \o Flat(Tail(mem))

\* C21: a write(off, b, n) or read(off, out, n) with off + n beyond the
\* total iovec length T fails with -EINVAL (also when n = 0 and off > T); the
\* failing write has stored b[0..] into the bytes [off, T) and has changed no
\* other byte.
C21_OutOfRangeFails ==
    /\ [][(rw.w = <<>> /\ rw'.w # <<>>
             /\ rw'.w[1].off + Len(rw'.w[1].buf) > TotalLen(iov_mem)) =>
            /\ rw'.w[1].thrown
            /\ \A k \in 1..TotalLen(iov_mem) :
                   Flat(iov_mem')[k] = IF k > rw'.w[1].off
                                       THEN rw'.w[1].buf[k - rw'.w[1].off]
                                       ELSE Flat(iov_mem)[k]]_vars
    /\ [][(rw.r = <<>> /\ rw'.r # <<>>
             /\ rw.w[1].off + Len(rw.w[1].buf) > TotalLen(iov_mem)) =>
            rw'.r[1].thrown]_vars

\* the handle a create_bo_rsp / create_ctx_rsp of the last CCMD reported
ReportedHandle == last.writes[Len(last.writes)].rsp.handle

\* C22: a Context's hwctx table holds at most one hwctx per handle (its BO
\* table one BO per handle), and after a create_bo or create_ctx CCMD that
\* returned success the object whose handle the response reported is in the
\* Context's table.
C22_CreatedObjectLive ==
    /\ \A h1, h2 \in hwctx_table : h1.handle = h2.handle => h1 = h2
    /\ (last.ret = "OK" /\ last.invoked = "create_bo") =>
           ReportedHandle \in bo_table
    /\ (last.ret = "OK" /\ last.invoked = "create_ctx") =>
           lookup_hwctx(hwctx_table, ReportedHandle) # {}

\* C22 witness: a create_ctx returned success beside an older hwctx and a BO
C22_Witness ==
    /\ last.ret = "OK"
    /\ last.invoked = "create_ctx"
    /\ Cardinality(hwctx_table) = 2
    /\ bo_table # {}
    /\ lookup_hwctx(hwctx_table, ReportedHandle) # {}

\* C23: no thread closes a DRM fd, issues a kernel ioctl or joins a
\* retirement thread while it holds the mutex of a lookup table: no Device
\* destructor (vxdna_device_cleanup, the table cleanups, close(drm_fd)) runs
\* inside the locked region of vaccel_remove.
C23_NoTeardownUnderTableLock ==
    \A t \in Threads : ~thr[t].locked

\* the callers that hold a reference to Device d obtained by a lookup or made
\* by vaccel_create
Holders(d) == {t \in Threads : thr[t].device_ptr = d \/ thr[t].device = d}

ApiCall(op) == api_last' # api_last /\ api_last'.op = op

\* what C25 says of submit_fence and of a get_fence_fd for an unknown id:
\* a fence_id that is in the Device's fence table is refused with -EEXIST and
\* nothing changes; a success adds the one record of its fence_id; a
\* get_fence_fd for an id without a record returns -1
C25_SubmitAndUnknown ==
    /\ (ApiCall("submit_fence") /\ api_last'.dev /\ api_last'.found
            /\ api_last'.args[2] \in fence_tab[api_last'.cookie]) =>
           /\ api_last'.ret = "EEXIST"
           /\ fence_tab' = fence_tab
           /\ ctx_tab' = ctx_tab
    /\ (ApiCall("submit_fence") /\ api_last'.ret = "OK") =>
           /\ api_last'.args[2] \notin fence_tab[api_last'.cookie]
           /\ fence_tab' = [fence_tab EXCEPT ![api_last'.cookie] =
                               @ \cup {api_last'.args[2]}]
    /\ (ApiCall("get_fence_fd")
            /\ api_last'.args[1] \notin fence_tab[api_last'.cookie]) =>
           api_last'.ret = "-1"

\* C25 as stated: as above, and a get_fence_fd for a fence_id that a
\* successful submit_fence has put into the fence table returns a
\* non-negative fd.
C25_FenceFdAlways ==
    [][/\ C25_SubmitAndUnknown
       /\ (ApiCall("get_fence_fd") /\ api_last'.dev
               /\ api_last'.args[1] \in fence_tab[api_last'.cookie]) =>
              api_last'.ret = "fd"]_vars

\* C25 amended: as above, and a get_fence_fd for a fence_id in the fence
\* table returns a non-negative fd when the duplication of the fence's fd
\* succeeds and -1 when it fails.
C25_FenceFdUnlessDupFails ==
    [][/\ C25_SubmitAndUnknown
       /\ (ApiCall("get_fence_fd") /\ api_last'.dev
               /\ api_last'.args[1] \in fence_tab[api_last'.cookie]) =>
              (api_last'.ret = "fd" <=> api_last'.args[2] = "OK")]_vars

\* C25 witness: get_fence_fd has returned the fd of a fence that a
\* submit_fence recorded
C25_Witness ==
    /\ api_last.op = "get_fence_fd"
    /\ api_last.ret = "fd"
    /\ api_last.args[1] \in fence_tab[api_last.cookie]
    /\ \E e \in ctx_tab[api_last.cookie] : e.last_fence_id = api_last.args[1]

(***************************************************************************)
(* Claims about the exception boundary                                     *)
(***************************************************************************)

\* C26: vaccel_error_wrap is total and deterministic: it returns 0 when the
\* wrapped body completes, the error's own code when the body throws a
\* vaccel_error, -EIO when it throws anything else, and no exception leaves
\* it; calls with the same body outcome return the same value.
C26_WrapTotal ==
    /\ [](/\ ~wrapped.result.escaped
          /\ wrapped.result.ret =
                 IF wrapped.f.kind = "returns" THEN 0
                 ELSE IF wrapped.f.type = "vaccel_error" THEN wrapped.f.code
                 ELSE -EIO)
    /\ [][wrapped'.f = wrapped.f => wrapped'.result.ret = wrapped.result.ret]_vars

\* C26 witness: a body threw a vaccel_error with -EINVAL and the boundary
\* returned that code
C26_Witness ==
    /\ wrapped.func = "submit_fence"
    /\ wrapped.f.type = "vaccel_error"
    /\ wrapped.f.code = -22
    /\ wrapped.result.ret = -22
    /\ ~wrapped.result.escaped

(***************************************************************************)
(* Claims about the construction of a BO                                   *)
(***************************************************************************)

\* C32: for every resource-backed BO created with map_align > 0, a power of
\* two or not, vaddr is a multiple of map_align, [vaddr, vaddr + map_size)
\* lies inside the reservation [resv, resv + map_size + map_align), and
\* after construction exactly the pages of that range are mapped.
C32_AlignedMapping ==
    (bo_map.made /\ bo_map.map_align > 0) =>
        /\ bo_map.vaddr % bo_map.map_align = 0
        /\ bo_map.resv <= bo_map.vaddr
        /\ bo_map.vaddr + bo_map.map_size
               <= bo_map.resv + bo_map.map_size + bo_map.map_align
        /\ bo_map.mapped = PagesOf(bo_map.vaddr, bo_map.map_size)

(***************************************************************************)
(* Claims about the buffer sizing of get_info                              *)
(***************************************************************************)

C33_WitnessRejected ==
    /\ info.num_element = 4 /\ info.size = 4
    /\ info.thrown = "EINVAL" /\ ~info.sized

(***************************************************************************)
(* Claims about exec_cmd                                                   *)
(***************************************************************************)

\* C34: exec_cmd passes the command handle inline (cmd_handles =
\* cmds_n_args[0]) exactly when cmd_count = 1 and a pointer to the
\* command-handle array for every other cmd_count, 0 included; rsp.seq is
\* the sequence number the EXEC_CMD ioctl produced.
C34_InlineExactlyForOne ==
    exec.called =>
        /\ exec.cmd_handles.kind = "inline" <=> exec.cmd_count = 1
        /\ exec.cmd_handles.kind = "pointer" <=> exec.cmd_count # 1
        /\ exec.thrown = "none" => exec.rsp_seq = exec.ioctl_seq

(***************************************************************************)
(* Claims about the lifecycle of the registry                              *)
(***************************************************************************)

\* C35: init and teardown of the registry are idempotent; teardown destroys
\* every registered Device; while the registry is torn down create_device
\* fails with -EINVAL, lookup finds no Device and destroy_device changes
\* nothing, so no Device is registered or reachable while it is not
\* initialized.
C35_RegistryLifecycle ==
    /\ [](~initialized =>
             /\ \A c \in Cookies : device_table[c] = NoDev
             /\ \A t \in Threads : thr[t].device = NoDev /\ thr[t].device_ptr = NoDev
             /\ \A t \in Threads :
                    thr[t].pc = "done" /\ thr[t].op = "create" => thr[t].ret = "EINVAL")
    /\ [](hook.op = "cleanup" /\ hook.was /\ ~initialized =>
             hook.freed = hook.registered)
    /\ [][initialized /\ initialized' /\ NoCallUnderWay
                /\ (\A t \in Threads : thr'[t].pc = "idle")
             => UNCHANGED <<device_table, fd_open, next_dev, created>>]_vars
    /\ [][~initialized /\ ~initialized'
             => /\ UNCHANGED <<device_table, fd_open, next_dev>>
                /\ last_lookup' # last_lookup => last_lookup'.dev = NoDev]_vars

\* the registry was torn down with a Device registered, and a create_device
\* made afterwards has returned
C35_Witness ==
    /\ ~initialized
    /\ hook.op = "cleanup" /\ hook.was /\ hook.registered # {}
    /\ \E t \in Threads : thr[t].pc = "done" /\ thr[t].op = "create"

(***************************************************************************)
(* Claims about the destruction of a Context                               *)
(***************************************************************************)

\* C36: when a Context is destroyed every BO and hwctx is released first
\* and only then the Context's DRM fd is closed: no ioctl is ever issued on
\* a closed Context fd.
C36_NoIoctlOnClosedFd ==
    ctx_life.fd >= 0 =>
        /\ \A i \in DOMAIN ctx_life.ioctls : ctx_life.ioctls[i].fd_open
        /\ ctx_life.closes > 0 =>
               ctx_life.bo_table = {} /\ ctx_life.hwctx_table = {}

\* C40: create_ctx calls get_device_fd exactly once per Context; when it
\* returns a negative errno create_ctx fails and no Context is inserted;
\* every Context in the table holds a non-negative fd; the fd of a Context
\* is closed exactly once, when the Context is destroyed or when its
\* creation fails after the fd was obtained.
C40_ContextFdValid ==
    /\ ctx_life.pc # "none" => ctx_life.get_fd_calls = 1
    /\ (ctx_life.pc # "none" /\ ctx_life.fd < 0) =>
           ctx_life.thrown # "none" /\ ~ctx_life.in_table
    /\ ctx_life.in_table => ctx_life.fd >= 0
    /\ ctx_life.closes <= 1
    /\ (ctx_life.pc \in {"members", "gone"} /\ ctx_life.fd >= 0) =>
           ctx_life.closes = 1

\* C38: a BO whose construction fails after CREATE_BO succeeded (GET_BO_INFO,
\* the reservation or the mapping fails) has its handle closed with
\* GEM_CLOSE before the error is returned: no kernel handle stays open
\* without a BO that owns it.
C38_FailedConstructionClosesHandle ==
    bo_map.thrown # "none" => ~bo_map.handle_open

====
